---- MODULE Spec2Model ----
(***************************************************************************)
(* Test Analytics Backend: the idempotent ingestion write path             *)
(* (services/ingestionService.js, db/testRunDB.js), the provisioning        *)
(* calls that create its parents (orgService, projectService, orgDB,        *)
(* projectDB), the relational schema (migrations/init.sql) and the          *)
(* maintenance script scripts/clean-db.js.                                  *)
(*                                                                          *)
(* Every `await` of an async function is a scheduling point: an action is   *)
(* one synchronous run of a handler up to its next storage round trip, or   *)
(* one storage statement together with the continuation it resumes.         *)
(***************************************************************************)
EXTENDS Integers, Sequences, FiniteSets, TLC

\* Bounds of the model.
MaxCalls == 2      \* ingestTestRun calls issued in one behaviour
MaxCleanRuns == 1  \* runs of scripts/clean-db.js in one behaviour
MaxTokens == 2     \* tokens drawn by generateToken in one behaviour
MaxRequests == 2   \* POST /ingest requests received in one behaviour
MaxLogs == 2       \* calls of the logger in one behaviour
MaxErrors == 2     \* errors passed to errorHandler in one behaviour
MaxDbCalls == 4    \* calls of initDatabase, getDatabase, closeDatabase in one behaviour
MaxResponseCalls == 2  \* calls of res.json and res.send for one request
MaxTriggers == 2   \* SIGTERM, SIGINT, uncaught exceptions, unhandled rejections of one process

Calls     == 1..MaxCalls
Requests  == 1..MaxRequests
\* The clients that provision; each awaits one call before it makes the next.
ProvClients == {"admin", "peer"}
\* The client that provisions alone
Admins == {"admin"}
\* The clients of tokenService: one issues tokens, one resolves them.
TokClients == {"issuer", "resolver"}

VARIABLES
  organizations,  \* rows of table organizations
  projects,       \* rows of table projects
  api_tokens,     \* rows of table api_tokens
  test_runs,      \* rows of table test_runs
  calls,          \* ingestTestRun invocations: position, arguments, outcome
  prov,           \* per provisioning client, its current (or last) call
  cleanPc,        \* clean-db.js: statements of clean.sql executed so far, over all runs
  tok,            \* per tokenService client, its current (or last) call
  issued,         \* the {token, project_id} pairs createToken has returned
  reqs,           \* POST /ingest requests: position, header, body, outcome
  handled,        \* errorHandler invocations: error, request, response
  logged,         \* logger: the context of the last call and the entry written
  dbm,            \* db/database.js: the module's `db` and its connections
  rl,             \* requestLogger: per request, its closure and the entries it wrote
  srv             \* server.js: the process, its HTTP server and its shutdowns

tables == <<organizations, projects, api_tokens, test_runs>>
\* The state of errorHandler, logger, database.js, requestLogger, server.js
infra == <<handled, logged, dbm, rl, srv>>
vars == <<organizations, projects, api_tokens, test_runs, calls, prov, cleanPc,
          tok, issued, reqs, handled, logged, dbm, rl, srv>>

----------------------------------------------------------------------------
(* JavaScript values                                                        *)

Undefined == [t |-> "undefined"]
Str(s)    == [t |-> "string", s |-> s]
\* A number i + f/10; f is the first fractional digit (1.5 is Num(1, 5)).
Num(i, f) == [t |-> "number", n |-> i, f |-> f]
Null      == [t |-> "null"]
\* (A header string is Header(head, tail), defined with the middleware.)
\* The string that spells the n-th value drawn from uuidv4().
UuidStr(n) == [t |-> "uuid", id |-> n]

\* typeof x
TypeOf(x) == IF x.t \in {"uuid", "header"} THEN "string" ELSE x.t

\* JavaScript truthiness (the operand of `!x`).
Truthy(x) ==
  CASE x.t = "undefined" -> FALSE
    [] x.t = "null"      -> FALSE
    [] x.t = "string"    -> x.s # ""
    [] x.t = "uuid"      -> TRUE
    [] x.t = "header"    -> ~(x.head = "" /\ x.tail = "")
    [] x.t = "number"    -> ~(x.n = 0 /\ x.f = 0)
    [] OTHER             -> TRUE

\* Number.isInteger
NumberIsInteger(x) == x.t = "number" /\ x.f = 0

\* x < 0 for a number
LessThanZero(x) == x.n < 0

----------------------------------------------------------------------------
(* Input literals                                                           *)

RunIdLit1 == "770e8400-e29b-41d4-a716-446655440002"
RunIdLit2 == "550e8400-e29b-41d4-a716-446655440000"

\* uuid.validate: a string matching the UUID pattern. Of the literals used
\* as inputs, these match.
UuidPatternMatches == {RunIdLit1, RunIdLit2}

isValidUUID(x) == x.t = "string" /\ x.s \in UuidPatternMatches

\* new Date(s) for the timestamp literals used as inputs: the instant in
\* minutes since 2026-01-12T00:00:00.000Z, or an Invalid Date.
InvalidDate == [valid |-> FALSE, time |-> 0]
DateAt(m)   == [valid |-> TRUE, time |-> m]
DateParse(s) ==
  CASE s = "2026-01-12T10:10:00.000Z"      -> DateAt(610)
    [] s = "2026-01-12T10:10:00Z"          -> DateAt(610)
    [] s = "2026-01-12T12:10:00.000+02:00" -> DateAt(610)
    [] s = "2026-01-12T11:30:00.000Z"      -> DateAt(690)
    [] OTHER                               -> InvalidDate

\* Date.prototype.toISOString: always UTC, always with milliseconds.
ToISOString(date) ==
  CASE date.time = 610 -> "2026-01-12T10:10:00.000Z"
    [] date.time = 690 -> "2026-01-12T11:30:00.000Z"
    [] OTHER           -> "1970-01-01T00:00:00.000Z"

\* Mutant: a timestamp is taken when it parses, as the route's isISO8601 does.
isValidISO8601ParsesOnly(timestamp) ==
  IF timestamp.t # "string" THEN FALSE
  ELSE DateParse(timestamp.s).valid

isValidISO8601(timestamp) ==
  IF timestamp.t # "string" THEN FALSE
  ELSE LET date == DateParse(timestamp.s)
       IN  date.valid /\ ToISOString(date) = timestamp.s

----------------------------------------------------------------------------
(* Errors                                                                   *)

NoError == [name |-> "none", code |-> "none", message |-> "none"]

ValidationError(msg) ==
  [name |-> "ValidationError", code |-> "none", message |-> msg]
NotFoundError(msg) ==
  [name |-> "NotFoundError", code |-> "none", message |-> msg]
ConflictError(msg) ==
  [name |-> "ConflictError", code |-> "none", message |-> msg]
UnauthorizedError(msg) ==
  [name |-> "UnauthorizedError", code |-> "none", message |-> msg]

\* An error raised by the sqlite3 driver.
DriverError(code, msg) == [name |-> "Error", code |-> code, message |-> msg]

UniqueFailed  == DriverError("SQLITE_CONSTRAINT", "UNIQUE constraint failed")
ForeignFailed == DriverError("SQLITE_CONSTRAINT", "FOREIGN KEY constraint failed")
IoFailed      == DriverError("SQLITE_IOERR", "disk I/O error")

\* err.message.includes(text), for the driver messages above.
MessageIncludes(err, text) == err.message = text

----------------------------------------------------------------------------
(* Storage: constraints of migrations/init.sql, as enforced on the server's *)
(* connection (PRAGMA foreign_keys = ON)                                    *)

\* uuidv4() draws a value that no other draw returns. The value drawn by
\* ingestTestRun call c for its row:
CallUuid(c) == <<"run", c>>
\* new Date().toISOString() as read by call c
CallInstant(c) == [t |-> "instant", of |-> <<"run", c>>]

\* Organization and project ids are numbered; 0 is an id that no draw
\* returns (a caller may pass any string).
GhostId == 0

\* Mutants of the uniqueness constraint: a table whose only key is its
\* primary key; a key that also takes in status; a key on run_id alone.
TestRunsUniqueOnIdOnly(rows, row) ==
  \E r \in rows : r.id = row.id
TestRunsUniqueWithStatus(rows, row) ==
  \E r \in rows : /\ r.project_id = row.project_id /\ r.run_id = row.run_id
                  /\ r.status = row.status
TestRunsUniqueOnRunId(rows, row) ==
  \E r \in rows : r.run_id = row.run_id

\* UNIQUE(project_id, run_id) of test_runs
TestRunsUniqueViolated(rows, row) ==
  \E r \in rows : r.project_id = row.project_id /\ r.run_id = row.run_id

\* Mutant: a connection on which PRAGMA foreign_keys was never set.
TestRunsForeignKeyUnenforced(projs, row) == FALSE

\* FOREIGN KEY (project_id) REFERENCES projects(id)
TestRunsForeignKeyViolated(projs, row) ==
  ~ \E p \in projs : p.id = row.project_id

\* The error of INSERT INTO test_runs, NoError when the row is stored. The
\* uniqueness check is made as the row is written, the foreign key check
\* as the statement ends. fault: the engine fails for a reason of its own.
InsertTestRunError(rows, projs, row, fault) ==
  IF fault THEN IoFailed
  ELSE IF TestRunsUniqueViolated(rows, row) THEN UniqueFailed
  ELSE IF TestRunsForeignKeyViolated(projs, row) THEN ForeignFailed
  ELSE NoError

\* Mutant: INSERT OR REPLACE, the later writer replaces the stored row.
InsertOrReplaceTestRun(rows, projs, row, fault) ==
  IF fault THEN [err |-> IoFailed, rows |-> rows]
  ELSE IF TestRunsForeignKeyViolated(projs, row) THEN [err |-> ForeignFailed, rows |-> rows]
  ELSE [err |-> NoError,
        rows |-> {r \in rows : ~(r.project_id = row.project_id /\ r.run_id = row.run_id)}
                 \cup {row}]

\* The statement INSERT INTO test_runs ... VALUES (?, ?, ?, ?, ?, ?, ?): its
\* error and the rows of the table after it.
InsertTestRun(rows, projs, row, fault) ==
  LET err == InsertTestRunError(rows, projs, row, fault)
  IN  [err |-> err, rows |-> IF err = NoError THEN rows \cup {row} ELSE rows]

\* The values testRunDB.create binds to the statement
TestRunRow(id, projectId, runId, status, durationMs, timestamp, createdAt) ==
  [id |-> id, project_id |-> projectId, run_id |-> runId, status |-> status,
   duration_ms |-> durationMs, timestamp |-> timestamp, created_at |-> createdAt]

\* Mutant: every constraint failure is taken for the idempotency conflict.
TestRunCreateRejectionAnyConstraint(err) ==
  IF err.code = "SQLITE_CONSTRAINT"
  THEN [name |-> "Error", code |-> "UNIQUE_VIOLATION",
        message |-> "Test run already exists for project"]
  ELSE err

\* testRunDB.create, the error it rejects with for driver error err
TestRunCreateRejection(err) ==
  IF MessageIncludes(err, "UNIQUE constraint failed")
  THEN [name |-> "Error", code |-> "UNIQUE_VIOLATION",
        message |-> "Test run already exists for project"]
  ELSE IF MessageIncludes(err, "FOREIGN KEY constraint failed")
  THEN [name |-> "Error", code |-> "FOREIGN_KEY_VIOLATION",
        message |-> "Project does not exist"]
  ELSE err

\* Mutant: the resolved object carries createdAt as its timestamp.
TestRunCreatedMixedUp(id, projectId, runId, status, durationMs, timestamp, createdAt) ==
  [id |-> id, project_id |-> projectId, run_id |-> runId, status |-> status,
   duration_ms |-> durationMs, timestamp |-> createdAt, created_at |-> createdAt]

\* testRunDB.create, the object it resolves with
TestRunCreated(id, projectId, runId, status, durationMs, timestamp, createdAt) ==
  [id |-> id, project_id |-> projectId, run_id |-> runId, status |-> status,
   duration_ms |-> durationMs, timestamp |-> timestamp, created_at |-> createdAt]

\* Mutant: the query also filters on the status.
FindByRunIdPassedOnly(rows, projectId, runId) ==
  LET found == {r \in rows : /\ r.project_id = projectId /\ r.run_id = runId
                             /\ r.status = Str("passed")}
  IN  IF found = {} THEN Null ELSE CHOOSE r \in found : TRUE

\* testRunDB.findByRunId: row || null
FindByRunId(rows, projectId, runId) ==
  LET found == {r \in rows : r.project_id = projectId /\ r.run_id = runId}
  IN  IF found = {} THEN Null ELSE CHOOSE r \in found : TRUE

----------------------------------------------------------------------------
(* ingestionService.ingestTestRun                                           *)

NoData == [status |-> Undefined, duration_ms |-> Undefined, timestamp |-> Undefined]

IdleCall ==
  [pc |-> "idle", projectId |-> GhostId, runId |-> Undefined, data |-> NoData,
   id |-> CallUuid(0), createdAt |-> CallInstant(0), testRun |-> Null, created |-> FALSE,
   error |-> NoError, inserts |-> 0, fetches |-> 0, prior |-> {},
   insertErr |-> NoError, fetched |-> "none"]

TerminalPcs ==
  {"Created", "Returned", "ValidationFailed", "StorageFailed", "FatalInconsistency"}

\* Mutant: the duration check without Number.isInteger.
ValidationMessageNoIntegerCheck(runId, data) ==
  IF ~Truthy(runId) \/ ~isValidUUID(runId)
  THEN "run_id must be a valid UUID"
  ELSE IF ~Truthy(data.status)
          \/ ~(data.status.t = "string" /\ data.status.s \in {"passed", "failed"})
  THEN "status must be \"passed\" or \"failed\""
  ELSE IF data.duration_ms.t # "number" \/ LessThanZero(data.duration_ms)
  THEN "duration_ms must be a non-negative integer"
  ELSE IF ~Truthy(data.timestamp) \/ ~isValidISO8601(data.timestamp)
  THEN "timestamp must be a valid ISO 8601 date string"
  ELSE ""

\* Mutant: the status is checked before the run id.
ValidationMessageStatusFirst(runId, data) ==
  IF ~Truthy(data.status)
     \/ ~(data.status.t = "string" /\ data.status.s \in {"passed", "failed"})
  THEN "status must be \"passed\" or \"failed\""
  ELSE IF ~Truthy(runId) \/ ~isValidUUID(runId)
  THEN "run_id must be a valid UUID"
  ELSE IF data.duration_ms.t # "number" \/ LessThanZero(data.duration_ms)
          \/ ~NumberIsInteger(data.duration_ms)
  THEN "duration_ms must be a non-negative integer"
  ELSE IF ~Truthy(data.timestamp) \/ ~isValidISO8601(data.timestamp)
  THEN "timestamp must be a valid ISO 8601 date string"
  ELSE ""

\* The message of the first validation that fails, "" when all pass.
ValidationMessage(runId, data) ==
  IF ~Truthy(runId) \/ ~isValidUUID(runId)
  THEN "run_id must be a valid UUID"
  ELSE IF ~Truthy(data.status)
          \/ ~(data.status.t = "string" /\ data.status.s \in {"passed", "failed"})
  THEN "status must be \"passed\" or \"failed\""
  ELSE IF data.duration_ms.t # "number" \/ LessThanZero(data.duration_ms)
          \/ ~NumberIsInteger(data.duration_ms)
  THEN "duration_ms must be a non-negative integer"
  ELSE IF ~Truthy(data.timestamp) \/ ~isValidISO8601(data.timestamp)
  THEN "timestamp must be a valid ISO 8601 date string"
  ELSE ""

\* Mutant: the test of the driver's own code, as in the README's sketch.
IsIdempotencyConflictByDriverCode(error) == error.code = "SQLITE_CONSTRAINT"

\* The catch block of ingestTestRun: does it take the fetch-existing path?
IsIdempotencyConflict(error) == error.code = "UNIQUE_VIOLATION"

\* A caller invokes ingestTestRun(projectId, runId, data).
IngestCall(c, projectId, runId, data) ==
  /\ calls[c].pc = "idle"
  /\ IF c = 1 THEN TRUE ELSE calls[c - 1].pc # "idle"
  /\ calls' = [calls EXCEPT ![c] =
       [@ EXCEPT !.pc = "Validating", !.projectId = projectId, !.runId = runId,
                 !.data = data,
                 !.prior = {d \in Calls : calls[d].pc \in TerminalPcs}]]
  /\ UNCHANGED <<tables, prov, cleanPc, tok, issued, infra>>

\* Mutant: check-then-insert, the existence query is issued first.
IngestValidateCheckFirst(c) ==
  /\ calls[c].pc = "Validating"
  /\ calls' = [calls EXCEPT ![c] = [@ EXCEPT !.pc = "FetchingExisting", !.fetches = @ + 1]]
  /\ UNCHANGED <<tables, prov, cleanPc, tok, issued, reqs, infra>>

\* Lines 28-52: the validations, then testRunDB.create up to db.run.
IngestValidate(c) ==
  /\ calls[c].pc = "Validating"
  /\ LET msg == ValidationMessage(calls[c].runId, calls[c].data)
     IN  IF msg # ""
         THEN /\ calls' = [calls EXCEPT ![c] =
                   [@ EXCEPT !.pc = "ValidationFailed",
                             !.error = ValidationError(msg)]]
         ELSE /\ calls' = [calls EXCEPT ![c] =
                   [@ EXCEPT !.pc = "Inserting", !.id = CallUuid(c),
                             !.createdAt = CallInstant(c), !.inserts = @ + 1]]
  /\ UNCHANGED <<tables, prov, cleanPc, tok, issued, reqs, infra>>

\* Mutant: an insert that failed for another reason than the uniqueness rule
\* is issued a second time.
IngestInsertRetrying(c, fault) ==
  /\ calls[c].pc = "Inserting"
  /\ LET a    == calls[c]
         row  == TestRunRow(a.id, a.projectId, a.runId, a.data.status,
                            a.data.duration_ms, a.data.timestamp, a.createdAt)
         stmt == InsertTestRun(test_runs, projects, row, fault)
         rej  == TestRunCreateRejection(stmt.err)
     IN  /\ test_runs' = stmt.rows
         /\ IF stmt.err = NoError
            THEN calls' = [calls EXCEPT ![c] =
                   [@ EXCEPT !.pc = "Created", !.created = TRUE,
                             !.testRun = TestRunCreated(a.id, a.projectId, a.runId,
                                a.data.status, a.data.duration_ms, a.data.timestamp,
                                a.createdAt)]]
            ELSE IF IsIdempotencyConflict(rej)
            THEN calls' = [calls EXCEPT ![c] =
                   [@ EXCEPT !.pc = "FetchingExisting", !.fetches = @ + 1,
                             !.insertErr = stmt.err]]
            ELSE IF a.inserts < 2
            THEN calls' = [calls EXCEPT ![c] =
                   [@ EXCEPT !.inserts = @ + 1, !.insertErr = stmt.err]]
            ELSE calls' = [calls EXCEPT ![c] =
                   [@ EXCEPT !.pc = "StorageFailed", !.error = rej,
                             !.insertErr = stmt.err]]
  /\ UNCHANGED <<organizations, projects, api_tokens, prov, cleanPc, tok, issued, reqs, infra>>

\* The INSERT runs; create resolves or rejects; ingestTestRun returns, starts
\* the fetch, or rethrows.
IngestInsert(c, fault) ==
  /\ calls[c].pc = "Inserting"
  /\ LET a    == calls[c]
         row  == TestRunRow(a.id, a.projectId, a.runId, a.data.status,
                            a.data.duration_ms, a.data.timestamp, a.createdAt)
         stmt == InsertTestRun(test_runs, projects, row, fault)
         rej  == TestRunCreateRejection(stmt.err)
     IN  /\ test_runs' = stmt.rows
         /\ IF stmt.err = NoError
            THEN calls' = [calls EXCEPT ![c] =
                   [@ EXCEPT !.pc = "Created", !.created = TRUE,
                             !.testRun = TestRunCreated(a.id, a.projectId, a.runId,
                                a.data.status, a.data.duration_ms, a.data.timestamp,
                                a.createdAt)]]
            ELSE IF IsIdempotencyConflict(rej)
            THEN calls' = [calls EXCEPT ![c] =
                   [@ EXCEPT !.pc = "FetchingExisting", !.fetches = @ + 1,
                             !.insertErr = stmt.err]]
            ELSE calls' = [calls EXCEPT ![c] =
                   [@ EXCEPT !.pc = "StorageFailed", !.error = rej,
                             !.insertErr = stmt.err]]
  /\ UNCHANGED <<organizations, projects, api_tokens, prov, cleanPc, tok, issued, reqs, infra>>

\* Mutant: when the fetch finds nothing, a record is made up from the payload.
IngestFetchFabricates(c, fault) ==
  /\ calls[c].pc = "FetchingExisting"
  /\ LET a == calls[c]
         existingTestRun == FindByRunId(test_runs, a.projectId, a.runId)
     IN  IF fault
         THEN calls' = [calls EXCEPT ![c] =
                [@ EXCEPT !.pc = "StorageFailed", !.error = IoFailed,
                          !.fetched = "error"]]
         ELSE IF existingTestRun = Null
         THEN calls' = [calls EXCEPT ![c] =
                [@ EXCEPT !.pc = "Returned", !.fetched = "norow", !.created = FALSE,
                          !.testRun = TestRunCreated(a.id, a.projectId, a.runId,
                             a.data.status, a.data.duration_ms, a.data.timestamp,
                             a.createdAt)]]
         ELSE calls' = [calls EXCEPT ![c] =
                [@ EXCEPT !.pc = "Returned", !.testRun = existingTestRun,
                          !.created = FALSE, !.fetched = "row"]]
  /\ UNCHANGED <<tables, prov, cleanPc, tok, issued, reqs, infra>>

\* The SELECT of findByRunId runs; ingestTestRun returns the row or throws.
IngestFetch(c, fault) ==
  /\ calls[c].pc = "FetchingExisting"
  /\ LET existingTestRun == FindByRunId(test_runs, calls[c].projectId, calls[c].runId)
     IN  IF fault
         THEN calls' = [calls EXCEPT ![c] =
                [@ EXCEPT !.pc = "StorageFailed", !.error = IoFailed,
                          !.fetched = "error"]]
         ELSE IF existingTestRun = Null
         THEN calls' = [calls EXCEPT ![c] =
                [@ EXCEPT !.pc = "FatalInconsistency", !.fetched = "norow",
                          !.error = [name |-> "Error", code |-> "none",
                             message |-> "Constraint violation but record not found"]]]
         ELSE calls' = [calls EXCEPT ![c] =
                [@ EXCEPT !.pc = "Returned", !.testRun = existingTestRun,
                          !.created = FALSE, !.fetched = "row"]]
  /\ UNCHANGED <<tables, prov, cleanPc, tok, issued, reqs, infra>>

----------------------------------------------------------------------------
(* Provisioning: orgService.createOrganization, projectService.createProject *)

\* String.prototype.trim for the name literals used as inputs.
Trim(s) ==
  CASE s = " Acme " -> "Acme"
    [] s = " passed " -> "passed"
    [] s = "API "   -> "API"
    [] s = "   "    -> ""
    [] OTHER        -> s

\* Mutant: the name check without the trim.
NameIsInvalidUntrimmed(name) ==
  ~Truthy(name) \/ TypeOf(name) # "string"

\* !name || typeof name !== 'string' || name.trim() === ''
NameIsInvalid(name) ==
  ~Truthy(name) \/ TypeOf(name) # "string" \/ Trim(name.s) = ""

IdleProv ==
  [pc |-> "idle", op |-> "none", organizationId |-> Undefined, name |-> Undefined,
   id |-> GhostId, result |-> Null, error |-> NoError]

\* The ids held anywhere: in a row, by a call in flight or by a caller.
UsedUuids ==
  {o.id : o \in organizations} \cup {p.id : p \in projects}
  \cup {p.organization_id : p \in projects}
  \cup {r.project_id : r \in test_runs}
  \cup {calls[c].projectId : c \in Calls}
  \cup {prov[v].id : v \in ProvClients}
  \cup {prov[v].organizationId.id : v \in {w \in ProvClients : prov[w].organizationId.t = "uuid"}}

\* uuidv4() in orgDB.create and projectDB.create: a value held nowhere.
FreshUuid ==
  CHOOSE n \in 1..(Cardinality(UsedUuids) + 1) :
    n \notin UsedUuids /\ \A m \in 1..(n - 1) : m \in UsedUuids

\* new Date().toISOString() read together with the draw of id
InstantOf(id) == [t |-> "instant", of |-> <<"prov", id>>]

\* orgDB.findById / projectDB.findById: row || null
FindById(rows, id) ==
  LET found == {r \in rows : id.t = "uuid" /\ r.id = id.id}
  IN  IF found = {} THEN Null ELSE CHOOSE r \in found : TRUE

\* The error of INSERT INTO organizations: name is UNIQUE.
InsertOrganizationError(rows, row, fault) ==
  IF fault THEN IoFailed
  ELSE IF \E r \in rows : r.name = row.name THEN UniqueFailed
  ELSE NoError

\* The error of INSERT INTO projects: UNIQUE(organization_id, name), then
\* FOREIGN KEY (organization_id) REFERENCES organizations(id).
InsertProjectError(rows, orgs, row, fault) ==
  IF fault THEN IoFailed
  ELSE IF \E r \in rows : r.organization_id = row.organization_id /\ r.name = row.name
  THEN UniqueFailed
  ELSE IF ~ \E o \in orgs : o.id = row.organization_id THEN ForeignFailed
  ELSE NoError

\* orgDB.create rejects with the driver's error as it is.
OrgCreateRejection(err) == err

\* projectDB.create, the error it rejects with for driver error err
ProjectCreateRejection(err) ==
  IF MessageIncludes(err, "FOREIGN KEY constraint failed")
  THEN [name |-> "Error", code |-> "FOREIGN_KEY_VIOLATION",
        message |-> "Organization does not exist"]
  ELSE err

\* The catch of the handler of POST /orgs around createOrganization
OrgsRouteRethrow(serviceError) ==
  IF serviceError.code = "SQLITE_CONSTRAINT"
     \/ serviceError.message \in {"UNIQUE constraint failed"}
  THEN ConflictError("Organization already exists")
  ELSE serviceError

\* The catch blocks of createOrganization and createProject
ServiceRethrow(error) ==
  IF error.code = "UNIQUE_VIOLATION" THEN ConflictError(error.message) ELSE error

\* createOrganization(name) up to db.run of orgDB.create
CreateOrganizationCall(v, name) ==
  /\ prov[v].pc \in {"idle", "done", "failed"}
  /\ IF NameIsInvalid(name)
     THEN prov' = [prov EXCEPT ![v] =
            [IdleProv EXCEPT !.pc = "failed", !.op = "createOrganization", !.name = name,
                      !.error = ValidationError(
                         "Organization name is required and must be a non-empty string")]]
     ELSE prov' = [prov EXCEPT ![v] =
            [IdleProv EXCEPT !.pc = "OrgInserting", !.op = "createOrganization",
                      !.name = Str(Trim(name.s)), !.id = FreshUuid]]
  /\ UNCHANGED <<tables, calls, cleanPc, tok, issued, reqs, infra>>

\* The INSERT of orgDB.create runs; createOrganization returns or throws.
OrgInsert(v, fault) ==
  /\ prov[v].pc = "OrgInserting"
  /\ LET row == [id |-> prov[v].id, name |-> prov[v].name,
                 created_at |-> InstantOf(prov[v].id)]
         err == InsertOrganizationError(organizations, row, fault)
     IN  IF err = NoError
         THEN /\ organizations' = organizations \cup {row}
              /\ prov' = [prov EXCEPT ![v] = [@ EXCEPT !.pc = "done", !.result = row]]
         ELSE /\ UNCHANGED organizations
              /\ prov' = [prov EXCEPT ![v] =
                   [@ EXCEPT !.pc = "failed",
                             !.error = ServiceRethrow(OrgCreateRejection(err))]]
  /\ UNCHANGED <<projects, api_tokens, test_runs, calls, cleanPc, tok, issued, reqs, infra>>

\* createProject(organizationId, name) up to db.get of orgDB.findById
CreateProjectCall(v, organizationId, name) ==
  /\ prov[v].pc \in {"idle", "done", "failed"}
  /\ IF NameIsInvalid(name)
     THEN prov' = [prov EXCEPT ![v] =
            [IdleProv EXCEPT !.pc = "failed", !.op = "createProject", !.name = name,
                      !.organizationId = organizationId,
                      !.error = ValidationError(
                         "Project name is required and must be a non-empty string")]]
     ELSE IF ~Truthy(organizationId) \/ TypeOf(organizationId) # "string"
     THEN prov' = [prov EXCEPT ![v] =
            [IdleProv EXCEPT !.pc = "failed", !.op = "createProject", !.name = name,
                      !.organizationId = organizationId,
                      !.error = ValidationError(
                         "Organization ID is required and must be a string")]]
     ELSE prov' = [prov EXCEPT ![v] =
            [IdleProv EXCEPT !.pc = "OrgFinding", !.op = "createProject", !.name = name,
                      !.organizationId = organizationId]]
  /\ UNCHANGED <<tables, calls, cleanPc, tok, issued, reqs, infra>>

\* Mutant: createProject without the existence check.
OrgFindUnchecked(v, fault) ==
  /\ prov[v].pc = "OrgFinding"
  /\ prov' = [prov EXCEPT ![v] =
       [@ EXCEPT !.pc = "ProjInserting", !.name = Str(Trim(@.s)), !.id = FreshUuid]]
  /\ UNCHANGED <<tables, calls, cleanPc, tok, issued, reqs, infra>>

\* The SELECT of orgDB.findById runs; createProject throws NotFound or goes on
\* to projectDB.create up to its db.run.
OrgFind(v, fault) ==
  /\ prov[v].pc = "OrgFinding"
  /\ LET org == FindById(organizations, prov[v].organizationId)
     IN  IF fault
         THEN prov' = [prov EXCEPT ![v] = [@ EXCEPT !.pc = "failed", !.error = IoFailed]]
         ELSE IF org = Null
         THEN prov' = [prov EXCEPT ![v] =
                [@ EXCEPT !.pc = "failed",
                          !.error = NotFoundError("Organization does not exist")]]
         ELSE prov' = [prov EXCEPT ![v] =
                [@ EXCEPT !.pc = "ProjInserting", !.name = Str(Trim(@.s)),
                          !.id = FreshUuid]]
  /\ UNCHANGED <<tables, calls, cleanPc, tok, issued, reqs, infra>>

\* The INSERT of projectDB.create runs; createProject returns or throws.
ProjInsert(v, fault) ==
  /\ prov[v].pc = "ProjInserting"
  /\ LET row == [id |-> prov[v].id, organization_id |-> prov[v].organizationId.id,
                 name |-> prov[v].name, created_at |-> InstantOf(prov[v].id)]
         err == InsertProjectError(projects, organizations, row, fault)
     IN  IF err = NoError
         THEN /\ projects' = projects \cup {row}
              /\ prov' = [prov EXCEPT ![v] = [@ EXCEPT !.pc = "done", !.result = row]]
         ELSE /\ UNCHANGED projects
              /\ prov' = [prov EXCEPT ![v] =
                   [@ EXCEPT !.pc = "failed",
                             !.error = ServiceRethrow(ProjectCreateRejection(err))]]
  /\ UNCHANGED <<organizations, api_tokens, test_runs, calls, cleanPc, tok, issued, reqs, infra>>

----------------------------------------------------------------------------
(* utils/crypto.js, db/tokenDB.js, services/tokenService.js                 *)

\* generateToken: 'ta_live_' and 64 hex digits of crypto.randomBytes(32). The
\* k-th draw of a behaviour; no two draws return the same bytes.
TokenLits ==
  <<"ta_live_1a1a1a1a1a1a1a1a1a1a1a1a1a1a1a1a1a1a1a1a1a1a1a1a1a1a1a1a1a1a1a1a",
    "ta_live_2b2b2b2b2b2b2b2b2b2b2b2b2b2b2b2b2b2b2b2b2b2b2b2b2b2b2b2b2b2b2b2b",
    "ta_live_3c3c3c3c3c3c3c3c3c3c3c3c3c3c3c3c3c3c3c3c3c3c3c3c3c3c3c3c3c3c3c3c">>

generateToken(k) == TokenLits[k]

\* Strings that generateToken never returns in a behaviour: a well-formed
\* token, the first token with its last character changed, the first token
\* with one character appended.
TokenNeverIssued == "ta_live_ffffffffffffffffffffffffffffffffffffffffffffffffffffffffffffffff"
TokenLastChanged == "ta_live_1a1a1a1a1a1a1a1a1a1a1a1a1a1a1a1a1a1a1a1a1a1a1a1a1a1a1a1a1a1a1a1b"
TokenOneAppended == "ta_live_1a1a1a1a1a1a1a1a1a1a1a1a1a1a1a1a1a1a1a1a1a1a1a1a1a1a1a1a1a1a1a1a0"

\* hashToken: the hex SHA-256 digest, for the strings used as tokens.
hashToken(token) ==
  CASE token = TokenLits[1] -> "6287c3537505526f986c6a102076e9f9d29dc6b6de9b6e21de81dbb54a9d036c"
    [] token = TokenLits[2] -> "b74fa274c03906264130ace28bd0473d61454a8864e1678b9077f58600f31ab2"
    [] token = TokenLits[3] -> "eabc40066406e503e6916367aeed3f98acafcb42e6965fa354873437eec675ce"
    [] token = TokenNeverIssued -> "c5162b6f3e1f36696392e7fd9f858bccc9aa163f705140973500a7c82841fce9"
    [] token = TokenLastChanged -> "3a654bd1d42b5c55ce0ed85ae09ce420a002a3ca20d59987e5a7119669a9a91e"
    [] token = TokenOneAppended -> "910783efe5d740d5b36a1da773fedce9fcc4086e712559d98732e33dc5a70fac"
    [] token = ""               -> "e3b0c44298fc1c149afbf4c8996fb92427ae41e4649b934ca495991b7852b855"

\* The error of INSERT INTO api_tokens: token_hash is UNIQUE, then FOREIGN KEY
\* (project_id) REFERENCES projects(id).
InsertTokenError(rows, projs, row, fault) ==
  IF fault THEN IoFailed
  ELSE IF \E r \in rows : r.token_hash = row.token_hash THEN UniqueFailed
  ELSE IF ~ \E p \in projs : p.id = row.project_id THEN ForeignFailed
  ELSE NoError

\* Mutant: tokenDB.create rejects with the driver's error as it is.
TokenCreateRejectionUntranslated(err) == err

\* tokenDB.create, the error it rejects with for driver error err
TokenCreateRejection(err) ==
  IF MessageIncludes(err, "UNIQUE constraint failed")
  THEN [name |-> "Error", code |-> "UNIQUE_VIOLATION", message |-> "Token hash already exists"]
  ELSE IF MessageIncludes(err, "FOREIGN KEY constraint failed")
  THEN [name |-> "Error", code |-> "FOREIGN_KEY_VIOLATION",
        message |-> "Project does not exist"]
  ELSE err

\* Mutant: the lookup answers with the project of any stored token.
FindProjectByAnyToken(rows, tokenHash) ==
  IF rows = {} THEN Null ELSE UuidStr((CHOOSE r \in rows : TRUE).project_id)

\* tokenDB.findProjectByTokenHash: row ? row.project_id : null
findProjectByTokenHash(rows, tokenHash) ==
  LET found == {r \in rows : r.token_hash = tokenHash}
  IN  IF found = {} THEN Null ELSE UuidStr((CHOOSE r \in found : TRUE).project_id)

\* Mutant: the value createToken hands to tokenDB.create is the raw token.
TokenValueStoredRaw(rawToken) == rawToken

\* createToken line 29: the value handed to tokenDB.create
TokenValueStored(rawToken) == hashToken(rawToken)

IdleTok ==
  [pc |-> "idle", op |-> "none", projectId |-> Undefined, rawToken |-> Undefined,
   tokenHash |-> "", result |-> Null, error |-> NoError, drawn |-> 0,
   inserts |-> 0, lookups |-> 0]

\* createToken(projectId) up to db.get of projectDB.findById
CreateTokenCall(v, projectId) ==
  /\ tok[v].pc \in {"idle", "done", "failed"}
  /\ tok[v].drawn < MaxTokens
  /\ IF ~Truthy(projectId) \/ TypeOf(projectId) # "string"
     THEN tok' = [tok EXCEPT ![v] =
            [IdleTok EXCEPT !.pc = "failed", !.op = "createToken", !.projectId = projectId,
                     !.drawn = tok[v].drawn,
                     !.error = ValidationError("Project ID is required and must be a string")]]
     ELSE tok' = [tok EXCEPT ![v] =
            [IdleTok EXCEPT !.pc = "ProjFinding", !.op = "createToken",
                     !.projectId = projectId, !.drawn = tok[v].drawn]]
  /\ UNCHANGED <<tables, calls, prov, cleanPc, issued, reqs, infra>>

\* Mutant: createToken without the existence check.
TokProjFindUnchecked(v, fault) ==
  /\ tok[v].pc = "ProjFinding"
  /\ LET rawToken == generateToken(tok[v].drawn + 1)
     IN  tok' = [tok EXCEPT ![v] =
           [@ EXCEPT !.pc = "TokInserting", !.rawToken = Str(rawToken),
                     !.tokenHash = TokenValueStored(rawToken),
                     !.drawn = @ + 1, !.inserts = @ + 1]]
  /\ UNCHANGED <<tables, calls, prov, cleanPc, issued, reqs, infra>>

\* The SELECT of projectDB.findById runs; createToken throws NotFound or draws
\* and hashes a token and goes on to tokenDB.create up to its db.run. k: the
\* bytes crypto.randomBytes returns, as the index of the token they spell.
TokProjFindDrawing(v, fault, k) ==
  /\ tok[v].pc = "ProjFinding"
  /\ LET project  == FindById(projects, tok[v].projectId)
         rawToken == generateToken(k)
     IN  IF fault
         THEN tok' = [tok EXCEPT ![v] = [@ EXCEPT !.pc = "failed", !.error = IoFailed]]
         ELSE IF project = Null
         THEN tok' = [tok EXCEPT ![v] =
                [@ EXCEPT !.pc = "failed",
                          !.error = NotFoundError("Project does not exist")]]
         ELSE tok' = [tok EXCEPT ![v] =
                [@ EXCEPT !.pc = "TokInserting", !.rawToken = Str(rawToken),
                          !.tokenHash = TokenValueStored(rawToken),
                          !.drawn = @ + 1, !.inserts = @ + 1]]
  /\ UNCHANGED <<tables, calls, prov, cleanPc, issued, reqs, infra>>

\* The same when every draw returns bytes that no earlier draw returned.
TokProjFind(v, fault) == TokProjFindDrawing(v, fault, tok[v].drawn + 1)

\* Mutant: a new token replaces the tokens the project had.
TokInsertRotating(v, fault) ==
  /\ tok[v].pc = "TokInserting"
  /\ LET row == [id |-> <<"token", tok[v].drawn>>, project_id |-> tok[v].projectId.id,
                 token_hash |-> tok[v].tokenHash,
                 created_at |-> [t |-> "instant", of |-> <<"token", tok[v].drawn>>]]
         err == InsertTokenError(api_tokens, projects, row, fault)
     IN  IF err = NoError
         THEN /\ api_tokens' = {t \in api_tokens : t.project_id # row.project_id}
                                \cup {row}
              /\ tok' = [tok EXCEPT ![v] =
                   [@ EXCEPT !.pc = "done",
                             !.result = [token |-> tok[v].rawToken,
                                         project_id |-> tok[v].projectId,
                                         warning |-> "Store this token securely. It will not be shown again."]]]
              /\ issued' = issued \cup {[token |-> tok[v].rawToken.s,
                                         project_id |-> tok[v].projectId.id]}
         ELSE /\ UNCHANGED <<api_tokens, issued>>
              /\ tok' = [tok EXCEPT ![v] =
                   [@ EXCEPT !.pc = "failed", !.error = TokenCreateRejection(err)]]
  /\ UNCHANGED <<organizations, projects, test_runs, calls, prov, cleanPc, reqs, infra>>

\* The INSERT of tokenDB.create runs; createToken returns the raw token or throws.
TokInsert(v, fault) ==
  /\ tok[v].pc = "TokInserting"
  /\ LET row == [id |-> <<"token", tok[v].drawn>>, project_id |-> tok[v].projectId.id,
                 token_hash |-> tok[v].tokenHash,
                 created_at |-> [t |-> "instant", of |-> <<"token", tok[v].drawn>>]]
         err == InsertTokenError(api_tokens, projects, row, fault)
     IN  IF err = NoError
         THEN /\ api_tokens' = api_tokens \cup {row}
              /\ tok' = [tok EXCEPT ![v] =
                   [@ EXCEPT !.pc = "done",
                             !.result = [token |-> tok[v].rawToken,
                                         project_id |-> tok[v].projectId,
                                         warning |-> "Store this token securely. It will not be shown again."]]]
              /\ issued' = issued \cup {[token |-> tok[v].rawToken.s,
                                         project_id |-> tok[v].projectId.id]}
         ELSE /\ UNCHANGED <<api_tokens, issued>>
              /\ tok' = [tok EXCEPT ![v] =
                   [@ EXCEPT !.pc = "failed", !.error = TokenCreateRejection(err)]]
  /\ UNCHANGED <<organizations, projects, test_runs, calls, prov, cleanPc, reqs, infra>>

\* Mutant: validateToken without its guard; hashing what is no string throws.
ValidateTokenCallUnguarded(v, rawToken) ==
  /\ tok[v].pc \in {"idle", "done", "failed"}
  /\ IF rawToken.t # "string"
     THEN tok' = [tok EXCEPT ![v] =
            [IdleTok EXCEPT !.pc = "failed", !.op = "validateToken", !.rawToken = rawToken,
                     !.drawn = tok[v].drawn,
                     !.error = [name |-> "TypeError", code |-> "ERR_INVALID_ARG_TYPE",
                                message |-> "The \"data\" argument must be of type string"]]]
     ELSE tok' = [tok EXCEPT ![v] =
            [IdleTok EXCEPT !.pc = "Looking", !.op = "validateToken", !.rawToken = rawToken,
                     !.drawn = tok[v].drawn,
                     !.tokenHash = hashToken(rawToken.s), !.lookups = 1]]
  /\ UNCHANGED <<tables, calls, prov, cleanPc, issued, reqs, infra>>

\* validateToken(rawToken) up to db.get of findProjectByTokenHash
ValidateTokenCall(v, rawToken) ==
  /\ tok[v].pc \in {"idle", "done", "failed"}
  /\ IF ~Truthy(rawToken) \/ TypeOf(rawToken) # "string"
     THEN tok' = [tok EXCEPT ![v] =
            [IdleTok EXCEPT !.pc = "done", !.op = "validateToken", !.rawToken = rawToken,
                     !.drawn = tok[v].drawn, !.result = Null]]
     ELSE tok' = [tok EXCEPT ![v] =
            [IdleTok EXCEPT !.pc = "Looking", !.op = "validateToken", !.rawToken = rawToken,
                     !.drawn = tok[v].drawn,
                     !.tokenHash = hashToken(rawToken.s), !.lookups = 1]]
  /\ UNCHANGED <<tables, calls, prov, cleanPc, issued, reqs, infra>>

\* The SELECT of findProjectByTokenHash runs; validateToken returns or throws.
TokLookup(v, fault) ==
  /\ tok[v].pc = "Looking"
  /\ IF fault
     THEN tok' = [tok EXCEPT ![v] = [@ EXCEPT !.pc = "failed", !.error = IoFailed]]
     ELSE tok' = [tok EXCEPT ![v] =
            [@ EXCEPT !.pc = "done",
                      !.result = findProjectByTokenHash(api_tokens, tok[v].tokenHash)]]
  /\ UNCHANGED <<tables, calls, prov, cleanPc, issued, reqs, infra>>

----------------------------------------------------------------------------
(* middleware/auth.js, middleware/errorHandler.js, routes/ingest.js         *)

\* An Authorization header value, split after its seventh character.
Header(head, tail) == [t |-> "header", head |-> head, tail |-> tail]

\* Mutant: a scheme compared without regard to case.
StartsWithBearerAnyCase(authHeader) == authHeader.head \in {"Bearer ", "bearer "}

\* authHeader.startsWith('Bearer ')
StartsWithBearer(authHeader) == authHeader.head = "Bearer "
\* authHeader.substring(7)
Substring7(authHeader) == authHeader.tail

\* errorHandler: the status code of the response for an error
ErrorStatus(err) ==
  CASE err.name = "ValidationError"   -> 400
    [] err.name = "UnauthorizedError" -> 401
    [] err.name = "NotFoundError"     -> 404
    [] err.name = "ConflictError"     -> 409
    [] OTHER                          -> 500

NoBody ==
  [project_id |-> Undefined, run_id |-> Undefined, status |-> Undefined,
   duration_ms |-> Undefined, timestamp |-> Undefined]

IdleReq ==
  [pc |-> "idle", authorization |-> Undefined, body |-> NoBody, projectId |-> Undefined,
   tokenHash |-> "", lookup |-> "none", nexts |-> 0, nextError |-> NoError,
   call |-> 0, status |-> 0, json |-> Null]

\* The validation chain of POST /ingest, for bodies whose strings carry no
\* surrounding white space: does validationResult(req) hold no error?
IngestBodyIsValid(body) ==
  /\ body.run_id.t = "string" /\ body.run_id.s \in UuidPatternMatches
  /\ body.status.t = "string" /\ body.status.s \in {"passed", "failed"}
  /\ body.duration_ms.t = "number" /\ body.duration_ms.f = 0 /\ body.duration_ms.n >= 0
  /\ body.timestamp.t = "string" /\ DateParse(body.timestamp.s).valid

\* authenticate up to db.get of findProjectByTokenHash; next(error) runs the
\* error handler, which responds.
AuthReceive(r, authorization, body) ==
  /\ reqs[r].pc = "idle"
  /\ IF r = 1 THEN TRUE ELSE reqs[r - 1].pc # "idle"
  /\ LET q == [reqs[r] EXCEPT !.authorization = authorization, !.body = body]
         missing == UnauthorizedError("Missing Authorization header")
         format  == UnauthorizedError(
                      "Invalid Authorization header format. Expected: Bearer <token>")
     IN  IF ~Truthy(authorization)
         THEN reqs' = [reqs EXCEPT ![r] =
                [q EXCEPT !.pc = "Responded", !.nexts = @ + 1, !.nextError = missing,
                          !.status = ErrorStatus(missing)]]
         ELSE IF ~StartsWithBearer(authorization)
         THEN reqs' = [reqs EXCEPT ![r] =
                [q EXCEPT !.pc = "Responded", !.nexts = @ + 1, !.nextError = format,
                          !.status = ErrorStatus(format)]]
         ELSE reqs' = [reqs EXCEPT ![r] =
                [q EXCEPT !.pc = "AuthLooking",
                          !.tokenHash = hashToken(Substring7(authorization))]]
  /\ UNCHANGED <<tables, calls, prov, cleanPc, tok, issued, infra>>

\* Mutant: a failed lookup is reported as an invalid token.
AuthLookupAsUnauthorized(r, fault) ==
  /\ reqs[r].pc = "AuthLooking"
  /\ LET projectId == findProjectByTokenHash(api_tokens, reqs[r].tokenHash)
         invalid   == UnauthorizedError("Invalid token")
     IN  IF fault \/ ~Truthy(projectId)
         THEN reqs' = [reqs EXCEPT ![r] =
                [@ EXCEPT !.pc = "Responded", !.nexts = @ + 1, !.nextError = invalid,
                          !.lookup = IF fault THEN "error" ELSE "norow",
                          !.status = ErrorStatus(invalid)]]
         ELSE reqs' = [reqs EXCEPT ![r] =
                [@ EXCEPT !.pc = "Authenticated", !.nexts = @ + 1, !.lookup = "row",
                          !.projectId = projectId]]
  /\ UNCHANGED <<tables, calls, prov, cleanPc, tok, issued, infra>>

\* The SELECT of findProjectByTokenHash runs; authenticate sets req.projectId
\* and calls next(), or calls next(error).
AuthLookup(r, fault) ==
  /\ reqs[r].pc = "AuthLooking"
  /\ LET projectId == findProjectByTokenHash(api_tokens, reqs[r].tokenHash)
         invalid   == UnauthorizedError("Invalid token")
     IN  IF fault
         THEN reqs' = [reqs EXCEPT ![r] =
                [@ EXCEPT !.pc = "Responded", !.nexts = @ + 1, !.nextError = IoFailed,
                          !.lookup = "error", !.status = ErrorStatus(IoFailed)]]
         ELSE IF ~Truthy(projectId)
         THEN reqs' = [reqs EXCEPT ![r] =
                [@ EXCEPT !.pc = "Responded", !.nexts = @ + 1, !.nextError = invalid,
                          !.lookup = "norow", !.status = ErrorStatus(invalid)]]
         ELSE reqs' = [reqs EXCEPT ![r] =
                [@ EXCEPT !.pc = "Authenticated", !.nexts = @ + 1, !.lookup = "row",
                          !.projectId = projectId]]
  /\ UNCHANGED <<tables, calls, prov, cleanPc, tok, issued, infra>>

\* Mutant: the handler takes the project from the request body.
RouteProjectIdFromBody(q) ==
  IF q.body.project_id.t = "uuid" THEN q.body.project_id ELSE q.projectId

\* The handler of POST /ingest, line 55: const projectId = req.projectId
RouteProjectId(q) == q.projectId

\* The handler of POST /ingest up to the call of ingestTestRun.
RouteHandle(r, c) ==
  /\ reqs[r].pc = "Authenticated"
  /\ LET q == reqs[r]
         failed == ValidationError("Validation failed")
     IN  IF ~IngestBodyIsValid(q.body)
         THEN /\ reqs' = [reqs EXCEPT ![r] =
                   [@ EXCEPT !.pc = "Responded", !.status = ErrorStatus(failed)]]
              /\ UNCHANGED <<tables, calls, prov, cleanPc, tok, issued, infra>>
         ELSE /\ IngestCall(c, RouteProjectId(q).id, q.body.run_id,
                            [status |-> q.body.status, duration_ms |-> q.body.duration_ms,
                             timestamp |-> q.body.timestamp])
              /\ reqs' = [reqs EXCEPT ![r] = [@ EXCEPT !.pc = "Ingesting", !.call = c]]

\* Mutant: the handler answers every returned record with 201.
RouteRespondAlwaysCreated(r) ==
  /\ reqs[r].pc = "Ingesting"
  /\ calls[reqs[r].call].pc \in TerminalPcs
  /\ LET a == calls[reqs[r].call]
     IN  IF a.error = NoError
         THEN reqs' = [reqs EXCEPT ![r] =
                [@ EXCEPT !.pc = "Responded", !.json = a.testRun, !.status = 201]]
         ELSE reqs' = [reqs EXCEPT ![r] =
                [@ EXCEPT !.pc = "Responded", !.status = ErrorStatus(a.error)]]
  /\ UNCHANGED <<tables, calls, prov, cleanPc, tok, issued, infra>>

\* ingestTestRun has returned or thrown; the handler responds or calls next(error).
RouteRespond(r) ==
  /\ reqs[r].pc = "Ingesting"
  /\ calls[reqs[r].call].pc \in TerminalPcs
  /\ LET a == calls[reqs[r].call]
     IN  IF a.error = NoError
         THEN reqs' = [reqs EXCEPT ![r] =
                [@ EXCEPT !.pc = "Responded", !.json = a.testRun,
                          !.status = IF a.created THEN 201 ELSE 200]]
         ELSE reqs' = [reqs EXCEPT ![r] =
                [@ EXCEPT !.pc = "Responded", !.status = ErrorStatus(a.error)]]
  /\ UNCHANGED <<tables, calls, prov, cleanPc, tok, issued, infra>>

----------------------------------------------------------------------------
(* utils/logger.js                                                          *)

\* A property name is the sequence of its characters.

\* The entries of the list of sensitive field names
Field ==
  [token |-> <<"t", "o", "k", "e", "n">>,
   password |-> <<"p", "a", "s", "s", "w", "o", "r", "d">>,
   secret |-> <<"s", "e", "c", "r", "e", "t">>,
   authorization |-> <<"a", "u", "t", "h", "o", "r", "i", "z", "a", "t", "i", "o", "n">>,
   api_key |-> <<"a", "p", "i", "_", "k", "e", "y">>,
   apiKey |-> <<"a", "p", "i", "K", "e", "y">>,
   token_hash |-> <<"t", "o", "k", "e", "n", "_", "h", "a", "s", "h">>,
   tokenHash |-> <<"t", "o", "k", "e", "n", "H", "a", "s", "h">>]

\* The property names of the log entry and of the contexts logged
Key ==
  [request_id |-> <<"r", "e", "q", "u", "e", "s", "t", "_", "i", "d">>,
   method |-> <<"m", "e", "t", "h", "o", "d">>,
   path |-> <<"p", "a", "t", "h">>,
   status |-> <<"s", "t", "a", "t", "u", "s">>,
   error_code |-> <<"e", "r", "r", "o", "r", "_", "c", "o", "d", "e">>,
   error_message |-> <<"e", "r", "r", "o", "r", "_", "m", "e", "s", "s", "a", "g", "e">>,
   error_name |-> <<"e", "r", "r", "o", "r", "_", "n", "a", "m", "e">>,
   project_id |-> <<"p", "r", "o", "j", "e", "c", "t", "_", "i", "d">>,
   error_stack |-> <<"e", "r", "r", "o", "r", "_", "s", "t", "a", "c", "k">>,
   error_details |-> <<"e", "r", "r", "o", "r", "_", "d", "e", "t", "a", "i", "l", "s">>,
   timestamp |-> <<"t", "i", "m", "e", "s", "t", "a", "m", "p">>,
   level |-> <<"l", "e", "v", "e", "l">>,
   message |-> <<"m", "e", "s", "s", "a", "g", "e">>,
   userId |-> <<"u", "s", "e", "r", "I", "d">>,
   request |-> <<"r", "e", "q", "u", "e", "s", "t">>,
   headers |-> <<"h", "e", "a", "d", "e", "r", "s">>,
   Authorization |-> <<"A", "u", "t", "h", "o", "r", "i", "z", "a", "t", "i", "o", "n">>,
   tokens_used |-> <<"t", "o", "k", "e", "n", "s", "_", "u", "s", "e", "d">>,
   items |-> <<"i", "t", "e", "m", "s">>,
   duration_ms |-> <<"d", "u", "r", "a", "t", "i", "o", "n", "_", "m", "s">>]

\* An object: its own enumerable properties, a function of property names.
Obj(f) == [t |-> "object", f |-> f]
\* An array
Arr(items) == [t |-> "array", items |-> items]
EmptyObject == Obj(<<>>)

\* String.prototype.toLowerCase, character by character
LowerOf(ch) ==
  CASE ch = "A" -> "a" [] ch = "B" -> "b" [] ch = "C" -> "c" [] ch = "D" -> "d"
    [] ch = "E" -> "e" [] ch = "F" -> "f" [] ch = "G" -> "g" [] ch = "H" -> "h"
    [] ch = "I" -> "i" [] ch = "J" -> "j" [] ch = "K" -> "k" [] ch = "L" -> "l"
    [] ch = "M" -> "m" [] ch = "N" -> "n" [] ch = "O" -> "o" [] ch = "P" -> "p"
    [] ch = "Q" -> "q" [] ch = "R" -> "r" [] ch = "S" -> "s" [] ch = "T" -> "t"
    [] ch = "U" -> "u" [] ch = "V" -> "v" [] ch = "W" -> "w" [] ch = "X" -> "x"
    [] ch = "Y" -> "y" [] ch = "Z" -> "z" [] OTHER -> ch
ToLowerCase(key) == [i \in 1..Len(key) |-> LowerOf(key[i])]

\* String.prototype.includes
Includes(text, part) ==
  \E i \in 0..(Len(text) - Len(part)) :
    \A j \in 1..Len(part) : text[i + j] = part[j]

\* Lines 27-36: the list of sensitive field names
sensitiveFields ==
  <<Field.token, Field.password, Field.secret, Field.authorization, Field.api_key, Field.apiKey,
    Field.token_hash, Field.tokenHash>>

\* Lines 40-43: sensitiveFields.some(field => lowerKey.includes(field))
IsSensitiveKey(key) ==
  LET lowerKey == ToLowerCase(key)
  IN  \E n \in 1..Len(sensitiveFields) : Includes(lowerKey, sensitiveFields[n])

\* The property name of index i of an array
IndexKey(i) == IF i = 0 THEN <<"0">> ELSE <<"1">>

\* { ...context }: the own properties of an object, the indices of an array
Spread(context) ==
  IF context.t = "array"
  THEN [key \in {IndexKey(i - 1) : i \in 1..Len(context.items)} |->
          IF key = <<"0">> THEN context.items[1] ELSE context.items[2]]
  ELSE IF context.t = "object" THEN context.f
  ELSE <<>>

\* typeof x === 'object' && x !== null
IsObject(x) == x.t \in {"object", "array"}

RECURSIVE sanitizeContext(_)
sanitizeContext(context) ==
  IF ~Truthy(context) \/ ~(context.t \in {"object", "array", "null"})
  THEN context
  ELSE LET sanitized == Spread(context)
       IN  Obj([key \in DOMAIN sanitized |->
                 IF IsSensitiveKey(key) THEN Str("[REDACTED]")
                 ELSE IF IsObject(sanitized[key]) THEN sanitizeContext(sanitized[key])
                 ELSE sanitized[key]])

\* new Date().toISOString() as read by the n-th log call
LogInstant(n) == [t |-> "instant", of |-> <<"log", n>>]

\* { timestamp, level, message, ...sanitizeContext(context) }
LogEntry(n, level, message, context) ==
  LET own  == [key \in {Key.timestamp, Key.level, Key.message} |->
                 IF key = Key.timestamp THEN LogInstant(n)
                 ELSE IF key = Key.level THEN Str(level) ELSE Str(message)]
      rest == Spread(sanitizeContext(context))
  IN  Obj([key \in DOMAIN own \cup DOMAIN rest |->
             IF key \in DOMAIN rest THEN rest[key] ELSE own[key]])

\* JSON.stringify, as the value a reader parses back: a property whose value
\* is undefined is left out, an undefined element of an array reads null.
RECURSIVE JsonStringify(_)
JsonStringify(x) ==
  IF x.t = "object"
  THEN Obj([key \in {k \in DOMAIN x.f : x.f[k].t # "undefined"} |-> JsonStringify(x.f[key])])
  ELSE IF x.t = "array"
  THEN Arr([i \in 1..Len(x.items) |->
              IF x.items[i].t = "undefined" THEN Null ELSE JsonStringify(x.items[i])])
  ELSE x

NoLog == [calls |-> 0, level |-> "none", context |-> EmptyObject, output |-> EmptyObject]

\* log(level, message, context): the state of the console after the call
LogWritten(level, message, context) ==
  [calls |-> logged.calls + 1, level |-> level, context |-> context,
   output |-> JsonStringify(LogEntry(logged.calls + 1, level, message, context))]

\* logger.error / warn / info / debug (message, context)
Log(level, message, context) ==
  /\ logged.calls < MaxLogs
  /\ logged' = LogWritten(level, message, context)
  /\ UNCHANGED <<tables, calls, prov, cleanPc, tok, issued, reqs, handled, dbm, rl, srv>>

----------------------------------------------------------------------------
(* utils/errors.js as errorHandler reads it, middleware/errorHandler.js     *)

AppErrorNames ==
  {"ValidationError", "UnauthorizedError", "NotFoundError", "ConflictError"}

\* The statusCode each subclass passes to the constructor of AppError
StatusCodeOf(name) ==
  CASE name = "ValidationError"   -> 400
    [] name = "UnauthorizedError" -> 401
    [] name = "NotFoundError"     -> 404
    [] name = "ConflictError"     -> 409

\* err.stack: the name, the message and the frames of the place that threw
StackOf(name, message) == [t |-> "stack", name |-> name, message |-> message]

\* The object thrown for an error of the model. details: the second argument
\* of the constructor of an AppError (null by default), the property of that
\* name of any other error (undefined when it has none). A status code of 0
\* is no status code.
Thrown(err, details) ==
  [isAppError |-> err.name \in AppErrorNames, name |-> err.name,
   message |-> err.message, code |-> err.code,
   statusCode |-> IF err.name \in AppErrorNames THEN StatusCodeOf(err.name) ELSE 0,
   details |-> details, status |-> 0, hasBody |-> FALSE,
   stack |-> StackOf(err.name, err.message)]

\* The error express.json() passes on for a body that is no JSON: a
\* SyntaxError of JSON.parse with status 400 and the body read.
JsonParseError(message) ==
  [isAppError |-> FALSE, name |-> "SyntaxError", message |-> message,
   code |-> "none", statusCode |-> 400, details |-> Undefined, status |-> 400,
   hasBody |-> TRUE, stack |-> StackOf("SyntaxError", message)]

\* The error express.json() passes on for a body over its size limit
PayloadTooLargeError ==
  [isAppError |-> FALSE, name |-> "PayloadTooLargeError",
   message |-> "request entity too large", code |-> "none", statusCode |-> 413,
   details |-> Undefined, status |-> 413, hasBody |-> FALSE,
   stack |-> StackOf("PayloadTooLargeError", "request entity too large")]

\* Line 45: the test for a JSON parsing error
IsJsonParseError(err) == err.name = "SyntaxError" /\ err.status = 400 /\ err.hasBody

\* Mutant: the switch without its case 409.
ErrorCodeOfStatusNoConflict(statusCode) ==
  CASE statusCode = 400 -> "invalid_request"
    [] statusCode = 401 -> "unauthorized"
    [] statusCode = 404 -> "not_found"
    [] OTHER            -> "error"

\* Lines 29-44: switch (statusCode)
ErrorCodeOfStatus(statusCode) ==
  CASE statusCode = 400 -> "invalid_request"
    [] statusCode = 401 -> "unauthorized"
    [] statusCode = 404 -> "not_found"
    [] statusCode = 409 -> "conflict"
    [] OTHER            -> "error"

\* Lines 21-50: the message of the response
ResponseMessage(err) ==
  IF err.isAppError THEN err.message
  ELSE IF IsJsonParseError(err) THEN "Invalid JSON in request body"
  ELSE "An internal server error occurred"

\* req.requestId || 'unknown'
RequestIdOf(req) == IF Truthy(req.requestId) THEN req.requestId ELSE Str("unknown")

\* errorHandler(err, req, res, next): the status and body of the response and
\* the call of the logger.
errorHandler(err, req) ==
  LET statusCode == IF err.isAppError THEN err.statusCode
                    ELSE IF IsJsonParseError(err) THEN 400 ELSE 500
      errorCode  == IF err.isAppError THEN ErrorCodeOfStatus(statusCode)
                    ELSE IF IsJsonParseError(err) THEN "invalid_json"
                    ELSE "internal_error"
      message    == ResponseMessage(err)
      keys       == {Key.request_id, Key.method, Key.path, Key.status, Key.error_code,
                     Key.error_message, Key.error_name}
                    \cup (IF Truthy(req.projectId) THEN {Key.project_id} ELSE {})
                    \cup (IF statusCode = 500 THEN {Key.error_stack, Key.error_details} ELSE {})
      logContext == Obj([key \in keys |->
                      CASE key = Key.request_id    -> RequestIdOf(req)
                        [] key = Key.method        -> req.method
                        [] key = Key.path          -> req.path
                        [] key = Key.status        -> Num(statusCode, 0)
                        [] key = Key.error_code    -> Str(errorCode)
                        [] key = Key.error_message -> Str(message)
                        [] key = Key.error_name    -> Str(err.name)
                        [] key = Key.project_id    -> req.projectId
                        [] key = Key.error_stack   -> err.stack
                        [] key = Key.error_details -> Str(err.message)])
  IN  [statusCode |-> statusCode,
       json |-> [code |-> errorCode, message |-> message,
                 request_id |-> RequestIdOf(req),
                 details |-> IF Truthy(err.details) THEN err.details ELSE Undefined],
       level |-> IF statusCode = 500 THEN "error" ELSE "warn",
       logMessage |-> IF statusCode = 500 THEN "Internal server error" ELSE "Request error",
       logContext |-> logContext]

NoRequest ==
  [requestId |-> Undefined, method |-> Undefined, path |-> Undefined,
   projectId |-> Undefined]

IdleHandled ==
  [pc |-> "idle", err |-> Thrown(NoError, Undefined), req |-> NoRequest,
   statusCode |-> 0, json |-> Null]

\* Express passes err to errorHandler, which logs and responds.
HandleError(n, err, req) ==
  /\ handled[n].pc = "idle"
  /\ IF n = 1 THEN TRUE ELSE handled[n - 1].pc # "idle"
  /\ LET h == errorHandler(err, req)
     IN  /\ handled' = [handled EXCEPT ![n] =
               [pc |-> "Responded", err |-> err, req |-> req,
                statusCode |-> h.statusCode, json |-> h.json]]
         /\ logged' = LogWritten(h.level, h.logMessage, h.logContext)
  /\ UNCHANGED <<tables, calls, prov, cleanPc, tok, issued, reqs, dbm, rl, srv>>

----------------------------------------------------------------------------
(* middleware/errorHandler.js: requestLogger. res.json and res.send are     *)
(* replaced by functions that call logResponse first; 'finish' calls it too *)

\* uuidv4() of the r-th request
RequestIdLits ==
  <<"6f1c2d3e-0000-4000-8000-000000000001", "6f1c2d3e-0000-4000-8000-000000000002",
    "6f1c2d3e-0000-4000-8000-000000000003">>

IdleLogger ==
  [pc |-> "idle", req |-> NoRequest,
   logged |-> FALSE,    \* let logged
   received |-> 0,      \* entries 'Request received' written
   completed |-> 0,     \* entries 'Request completed' written
   status |-> 0,        \* res.statusCode in the entry 'Request completed'
   jsons |-> 0, sends |-> 0, finished |-> FALSE]

\* requestLogger(req, res, next) up to next()
RequestLoggerCall(r, req) ==
  /\ rl[r].pc = "idle"
  /\ IF r = 1 THEN TRUE ELSE rl[r - 1].pc # "idle"
  /\ LET q == [req EXCEPT !.requestId = Str(RequestIdLits[r])]
         keys == {Key.request_id, Key.method, Key.path, Key.timestamp}
     IN  /\ rl' = [rl EXCEPT ![r] =
                [IdleLogger EXCEPT !.pc = "open", !.req = q, !.received = 1]]
         /\ logged' = LogWritten("info", "Request received",
               Obj([key \in keys |->
                  CASE key = Key.request_id -> q.requestId
                    [] key = Key.method -> q.method
                    [] key = Key.path -> q.path
                    [] key = Key.timestamp -> [t |-> "instant", of |-> <<"request", r>>]]))
  /\ UNCHANGED <<tables, calls, prov, cleanPc, tok, issued, reqs, handled, dbm, srv>>

\* Mutant: logResponse without the flag.
AfterLogResponseUnflagged(q, statusCode) ==
  [q EXCEPT !.logged = TRUE, !.completed = @ + 1, !.status = statusCode]

\* The closure of the request after a call of logResponse
AfterLogResponse(q, statusCode) ==
  IF q.logged THEN q
  ELSE [q EXCEPT !.logged = TRUE, !.completed = @ + 1, !.status = statusCode]

\* The context logResponse passes to logger.info
CompletedContext(r, statusCode) ==
  LET q    == rl[r].req
      keys == {Key.request_id, Key.method, Key.path, Key.status, Key.duration_ms}
                \cup IF Truthy(q.projectId) THEN {Key.project_id} ELSE {}
  IN  Obj([key \in keys |->
        CASE key = Key.request_id -> q.requestId
          [] key = Key.method -> q.method
          [] key = Key.path -> q.path
          [] key = Key.status -> Num(statusCode, 0)
          [] key = Key.duration_ms -> [t |-> "elapsed", of |-> <<"request", r>>]
          [] key = Key.project_id -> q.projectId])

\* The console after the calls of logResponse that take r's closure to q
LoggedBy(r, q, statusCode) ==
  IF q.completed > rl[r].completed
  THEN LogWritten("info", "Request completed", CompletedContext(r, statusCode))
  ELSE logged

\* res.json(body): logResponse, then the original res.json, which calls
\* this.send, the replaced res.send: logResponse again.
ResJson(r, statusCode) ==
  /\ rl[r].pc = "open"
  /\ rl[r].jsons + rl[r].sends < MaxResponseCalls
  /\ LET q == AfterLogResponse(AfterLogResponse(rl[r], statusCode), statusCode)
     IN  /\ rl' = [rl EXCEPT ![r] = [q EXCEPT !.jsons = @ + 1]]
         /\ logged' = LoggedBy(r, q, statusCode)
  /\ UNCHANGED <<tables, calls, prov, cleanPc, tok, issued, reqs, handled, dbm, srv>>

\* res.send(body): logResponse, then the original res.send.
ResSend(r, statusCode) ==
  /\ rl[r].pc = "open"
  /\ rl[r].jsons + rl[r].sends < MaxResponseCalls
  /\ LET q == AfterLogResponse(rl[r], statusCode)
     IN  /\ rl' = [rl EXCEPT ![r] = [q EXCEPT !.sends = @ + 1]]
         /\ logged' = LoggedBy(r, q, statusCode)
  /\ UNCHANGED <<tables, calls, prov, cleanPc, tok, issued, reqs, handled, dbm, srv>>

\* The response emits 'finish', once: logResponse.
ResFinish(r, statusCode) ==
  /\ rl[r].pc = "open"
  /\ ~rl[r].finished
  /\ LET q == AfterLogResponse(rl[r], statusCode)
     IN  /\ rl' = [rl EXCEPT ![r] = [q EXCEPT !.finished = TRUE]]
         /\ logged' = LoggedBy(r, q, statusCode)
  /\ UNCHANGED <<tables, calls, prov, cleanPc, tok, issued, reqs, handled, dbm, srv>>

----------------------------------------------------------------------------
(* db/database.js: the module variable `db`, initDatabase, getDatabase,     *)
(* closeDatabase. A connection is the number of the `new sqlite3.Database`  *)
(* that made it; 0 stands for null.                                         *)

NoConnection == 0

\* The steps of initDatabase after `new sqlite3.Database`, in order: the open
\* callback, PRAGMA foreign_keys, PRAGMA journal_mode, runMigrations.
InitSteps == <<"opening", "foreign_keys", "journal_mode", "migrating">>

IdleModule ==
  [db |-> NoConnection,   \* let db
   opened |-> 0,          \* connections made by new sqlite3.Database
   closed |-> {},         \* connections whose close has completed
   ops |-> <<>>,          \* the calls made, in order, with their outcomes
   initialised |-> FALSE] \* an initDatabase has completed and no closeDatabase since

DbOp(op, pc, conn, step, result, initialised) ==
  [op |-> op, pc |-> pc, conn |-> conn, step |-> step, result |-> result,
   initialised |-> initialised]

\* initDatabase(dbPath) up to the return of its executor
InitDatabaseCall ==
  /\ Len(dbm.ops) < MaxDbCalls
  /\ IF dbm.db # NoConnection
     THEN dbm' = [dbm EXCEPT !.ops = Append(@,
                    DbOp("initDatabase", "resolved", dbm.db, 0, dbm.db, dbm.initialised))]
     ELSE dbm' = [dbm EXCEPT !.db = dbm.opened + 1, !.opened = @ + 1,
                    !.ops = Append(@,
                      DbOp("initDatabase", "pending", dbm.opened + 1, 1, NoConnection,
                           dbm.initialised))]
  /\ UNCHANGED <<tables, calls, prov, cleanPc, tok, issued, reqs, handled, logged, rl>>

\* One callback of initDatabase runs: of the open, of a PRAGMA, of the
\* migrations. An error rejects and leaves `db` as it is; the last callback
\* resolves with `db`. Once closeDatabase has closed the connection, the
\* driver answers with an error, or the callback throws at `db.run` of the
\* null `db` and the promise never settles.
InitDatabaseStep(i, fault) ==
  /\ i \in 1..Len(dbm.ops)
  /\ dbm.ops[i].op = "initDatabase" /\ dbm.ops[i].pc = "pending"
  /\ LET o == dbm.ops[i]
     IN  IF fault \/ o.conn \in dbm.closed
         THEN \E pc \in IF o.conn \in dbm.closed THEN {"rejected", "threw"}
                         ELSE {"rejected"} :
                dbm' = [dbm EXCEPT !.ops[i].pc = pc]
         ELSE IF o.step < Len(InitSteps)
         THEN dbm' = [dbm EXCEPT !.ops[i].step = @ + 1]
         ELSE dbm' = [dbm EXCEPT !.ops[i].pc = "resolved", !.ops[i].result = dbm.db,
                                 !.initialised = TRUE]
  /\ UNCHANGED <<tables, calls, prov, cleanPc, tok, issued, reqs, handled, logged, rl>>

\* getDatabase()
GetDatabaseCall ==
  /\ Len(dbm.ops) < MaxDbCalls
  /\ IF dbm.db = NoConnection
     THEN dbm' = [dbm EXCEPT !.ops = Append(@,
                    DbOp("getDatabase", "threw", NoConnection, 0, NoConnection,
                         dbm.initialised))]
     ELSE dbm' = [dbm EXCEPT !.ops = Append(@,
                    DbOp("getDatabase", "returned", dbm.db, 0, dbm.db, dbm.initialised))]
  /\ UNCHANGED <<tables, calls, prov, cleanPc, tok, issued, reqs, handled, logged, rl>>

\* closeDatabase() up to the return of its executor
CloseDatabaseCall ==
  /\ Len(dbm.ops) < MaxDbCalls
  /\ IF dbm.db # NoConnection
     THEN dbm' = [dbm EXCEPT !.ops = Append(@,
                    DbOp("closeDatabase", "pending", dbm.db, 0, NoConnection,
                         dbm.initialised))]
     ELSE dbm' = [dbm EXCEPT !.ops = Append(@,
                    DbOp("closeDatabase", "resolved", NoConnection, 0, NoConnection,
                         dbm.initialised))]
  /\ UNCHANGED <<tables, calls, prov, cleanPc, tok, issued, reqs, handled, logged, rl>>

\* The callback of db.close runs: an error rejects; otherwise db = null.
\* Closing a connection that is closed already is an error of the driver.
CloseDatabaseStep(i, fault) ==
  /\ i \in 1..Len(dbm.ops)
  /\ dbm.ops[i].op = "closeDatabase" /\ dbm.ops[i].pc = "pending"
  /\ LET o == dbm.ops[i]
     IN  IF fault \/ o.conn \in dbm.closed
         THEN dbm' = [dbm EXCEPT !.ops[i].pc = "rejected"]
         ELSE dbm' = [dbm EXCEPT !.ops[i].pc = "resolved", !.db = NoConnection,
                                 !.closed = @ \cup {o.conn}, !.initialised = FALSE]
  /\ UNCHANGED <<tables, calls, prov, cleanPc, tok, issued, reqs, handled, logged, rl>>

----------------------------------------------------------------------------
(* server.js: startServer, shutdown and the handlers of the process. The    *)
(* callback of server.close is called when the server emits 'close', that   *)
(* is once it listens no more and its connections have ended.               *)

Signals == {"SIGTERM", "SIGINT", "UNCAUGHT_EXCEPTION", "UNHANDLED_REJECTION"}

\* The process when server.js has registered its handlers and is about to
\* call startServer().
LoadedProcess ==
  [pc |-> "loaded",
   initOp |-> 0,         \* the initDatabase call that startServer awaits
   server |-> FALSE,     \* `server` is not null
   bound |-> FALSE,      \* the callback of app.listen has been called
   accepting |-> FALSE,  \* the HTTP server listens
   stopped |-> FALSE,    \* the HTTP server has emitted 'close'
   shutdowns |-> <<>>,   \* the calls of shutdown, in order
   timer |-> FALSE,      \* a forced shutdown is scheduled
   exited |-> FALSE, exitCode |-> 0]

\* process.exit(code)
Exit(code) == [srv EXCEPT !.exited = TRUE, !.exitCode = code]

\* startServer() up to `await initDatabase(DATABASE_PATH)`
StartServer ==
  /\ srv.pc = "loaded"
  /\ InitDatabaseCall
  /\ srv' = [srv EXCEPT !.pc = "starting", !.initOp = Len(dbm.ops) + 1]

\* startServer() after the await: app.listen, or the catch and exit(1).
StartServerResume ==
  /\ srv.pc = "starting" /\ ~srv.exited
  /\ dbm.ops[srv.initOp].pc \in {"resolved", "rejected"}
  /\ IF dbm.ops[srv.initOp].pc = "resolved"
     THEN srv' = [srv EXCEPT !.pc = "listening", !.server = TRUE, !.accepting = TRUE]
     ELSE srv' = Exit(1)
  /\ UNCHANGED <<tables, calls, prov, cleanPc, tok, issued, reqs, handled, logged, dbm, rl>>

\* The server emits 'listening', or 'error' and the handler exits.
ServerListening(fault) ==
  /\ srv.pc = "listening" /\ ~srv.exited /\ ~srv.bound /\ srv.accepting
  /\ IF fault THEN srv' = Exit(1) ELSE srv' = [srv EXCEPT !.bound = TRUE]
  /\ UNCHANGED <<tables, calls, prov, cleanPc, tok, issued, reqs, handled, logged, dbm, rl>>

\* shutdown(signal), called by a handler of the process
Shutdown(signal) ==
  /\ srv.pc \in {"starting", "listening"} /\ ~srv.exited
  /\ Len(srv.shutdowns) < MaxTriggers
  /\ IF srv.server
     THEN srv' = [srv EXCEPT !.accepting = FALSE, !.timer = TRUE,
                    !.shutdowns = Append(@, [signal |-> signal, pc |-> "waiting",
                                             closeOp |-> 0])]
     ELSE srv' = [Exit(0) EXCEPT
                    !.shutdowns = Append(@, [signal |-> signal, pc |-> "exited",
                                             closeOp |-> 0])]
  /\ UNCHANGED <<tables, calls, prov, cleanPc, tok, issued, reqs, handled, logged, dbm, rl>>

\* The connections of the closed server have ended: it emits 'close'.
ServerStopped ==
  /\ srv.server /\ ~srv.accepting /\ ~srv.stopped /\ ~srv.exited
  /\ srv' = [srv EXCEPT !.stopped = TRUE]
  /\ UNCHANGED <<tables, calls, prov, cleanPc, tok, issued, reqs, handled, logged, dbm, rl>>

\* The callback the k-th shutdown passed to server.close, up to
\* `await closeDatabase()`. The callbacks are called in the order of their
\* registration.
CloseCallback(k) ==
  /\ k \in 1..Len(srv.shutdowns)
  /\ srv.stopped /\ ~srv.exited
  /\ srv.shutdowns[k].pc = "waiting"
  /\ \A j \in 1..(k - 1) : srv.shutdowns[j].pc # "waiting"
  /\ CloseDatabaseCall
  /\ srv' = [srv EXCEPT !.shutdowns[k].pc = "closingDb",
                        !.shutdowns[k].closeOp = Len(dbm.ops) + 1]

\* The callback after the await: exit(0), or the catch and exit(1).
ShutdownResume(k) ==
  /\ k \in 1..Len(srv.shutdowns)
  /\ ~srv.exited
  /\ srv.shutdowns[k].pc = "closingDb"
  /\ dbm.ops[srv.shutdowns[k].closeOp].pc \in {"resolved", "rejected"}
  /\ srv' = IF dbm.ops[srv.shutdowns[k].closeOp].pc = "resolved" THEN Exit(0)
            ELSE Exit(1)
  /\ UNCHANGED <<tables, calls, prov, cleanPc, tok, issued, reqs, handled, logged, dbm, rl>>

\* The timer of shutdown fires.
ForcedShutdown ==
  /\ srv.timer /\ ~srv.exited
  /\ srv' = Exit(1)
  /\ UNCHANGED <<tables, calls, prov, cleanPc, tok, issued, reqs, handled, logged, dbm, rl>>

----------------------------------------------------------------------------
(* scripts/clean-db.js: the statements of migrations/clean.sql, each its    *)
(* own transaction, on a connection that never sets PRAGMA foreign_keys     *)

CleanStatements == 5

CleanStep ==
  /\ cleanPc < CleanStatements * MaxCleanRuns
  /\ LET stmt == cleanPc % CleanStatements
     IN  CASE stmt = 0 -> test_runs' = {} /\ UNCHANGED <<organizations, projects, api_tokens>>
           [] stmt = 1 -> api_tokens' = {} /\ UNCHANGED <<organizations, projects, test_runs>>
           [] stmt = 2 -> projects' = {} /\ UNCHANGED <<organizations, api_tokens, test_runs>>
           [] stmt = 3 -> organizations' = {} /\ UNCHANGED <<projects, api_tokens, test_runs>>
           [] stmt = 4 -> UNCHANGED tables   \* VACUUM
  /\ cleanPc' = cleanPc + 1
  /\ UNCHANGED <<calls, prov, tok, issued, reqs, infra>>

----------------------------------------------------------------------------
(* Inputs and specifications                                                *)

TimestampLit1 == "2026-01-12T10:10:00.000Z"
TimestampLit2 == "2026-01-12T11:30:00.000Z"

DataPassed == [status |-> Str("passed"), duration_ms |-> Num(1234, 0),
               timestamp |-> Str(TimestampLit1)]
DataFailed == [status |-> Str("failed"), duration_ms |-> Num(0, 0),
               timestamp |-> Str(TimestampLit2)]

\* (runId, data) of the valid payloads: two payloads that share a run id and
\* differ in status, duration_ms and timestamp, and one with another run id.
ValidPayloads ==
  {<<Str(RunIdLit1), DataPassed>>, <<Str(RunIdLit1), DataFailed>>,
   <<Str(RunIdLit2), DataPassed>>}

InvalidRunIds     == {Str("not-a-uuid"), Undefined}
InvalidStatuses   == {Str("PASSED"), Undefined, Str(" passed "), Str("")}
InvalidDurations  == {Num(-1, 0), Num(1, 5), Str("5")}
InvalidTimestamps ==
  {Str("not-a-date"), Str("2026-01-12T10:10:00Z"), Num(610, 0),
   Str("2026-01-12T12:10:00.000+02:00"), Str("")}

\* (runId, data) with exactly one invalid field, and one with all four invalid
InvalidPayloads ==
  {<<r, DataPassed>> : r \in InvalidRunIds}
  \cup {<<Str(RunIdLit1), [DataPassed EXCEPT !.status = x]>> : x \in InvalidStatuses}
  \cup {<<Str(RunIdLit1), [DataPassed EXCEPT !.duration_ms = x]>> : x \in InvalidDurations}
  \cup {<<Str(RunIdLit1), [DataPassed EXCEPT !.timestamp = x]>> : x \in InvalidTimestamps}
  \cup {<<Str("not-a-uuid"), [status |-> Str("PASSED"), duration_ms |-> Num(-1, 0),
                              timestamp |-> Str("not-a-date")]>>}

\* The project ids of stored projects
StoredProjectIds == {p.id : p \in projects}

\* (projectId, runId, data) of calls with a valid payload: every valid payload
\* for a stored project, one payload for an id that is no project's.
ValidInputs ==
  {<<p, in[1], in[2]>> : p \in StoredProjectIds, in \in ValidPayloads}
  \cup {<<GhostId, Str(RunIdLit1), DataPassed>>}

\* Calls for the first stored project: every invalid payload, one valid one.
ValidationInputs ==
  {<<p, in[1], in[2]>> :
     p \in {q \in StoredProjectIds : \A o \in StoredProjectIds : q <= o},
     in \in InvalidPayloads \cup {<<Str(RunIdLit1), DataPassed>>}}

OrgNameInputs     == {Str("Acme")}
ProjectNameInputs == {Str("API"), Str("Web")}
StoredOrgIds      == {UuidStr(o.id) : o \in organizations}

Init ==
  /\ organizations = {}
  /\ projects = {}
  /\ api_tokens = {}
  /\ test_runs = {}
  /\ calls = [c \in Calls |-> IdleCall]
  /\ prov = [v \in ProvClients |-> IdleProv]
  /\ cleanPc = 0
  /\ tok = [v \in TokClients |-> IdleTok]
  /\ issued = {}
  /\ reqs = [r \in Requests |-> IdleReq]
  /\ handled = [n \in 1..MaxErrors |-> IdleHandled]
  /\ logged = NoLog
  /\ dbm = IdleModule
  /\ rl = [r \in Requests |-> IdleLogger]
  /\ srv = LoadedProcess

\* The provisioning client creates organizations and projects.
Provision(orgIds, projectNames, faults) ==
  \E v \in Admins :
    \/ \E name \in OrgNameInputs : CreateOrganizationCall(v, name)
    \/ \E fault \in faults : OrgInsert(v, fault)
    \/ \E o \in orgIds, name \in projectNames : CreateProjectCall(v, o, name)
    \/ \E fault \in faults : OrgFind(v, fault)
    \/ \E fault \in faults : ProjInsert(v, fault)

\* Callers invoke ingestTestRun; the storage engine may fail a statement.
Ingest(inputs) ==
  \E c \in Calls :
    \/ \E in \in inputs : IngestCall(c, in[1], in[2], in[3]) /\ UNCHANGED reqs
    \/ IngestValidate(c)
    \/ \E fault \in BOOLEAN : IngestInsert(c, fault)
    \/ \E fault \in BOOLEAN : IngestFetch(c, fault)

\* Provisioning and ingestion of valid payloads, in any interleaving.
Next == Provision(StoredOrgIds, ProjectNameInputs, {FALSE}) \/ Ingest(ValidInputs)

Spec == Init /\ [][Next]_vars

\* The same with invalid payloads.
NextValidation ==
  Provision(StoredOrgIds, ProjectNameInputs, {FALSE}) \/ Ingest(ValidationInputs)

SpecValidation == Init /\ [][NextValidation]_vars

\* Payloads with every combination of valid and invalid fields, for the
\* first stored project.
OrderInputs ==
  {<<p, r, [status |-> s, duration_ms |-> d, timestamp |-> t]>> :
     p \in {q \in StoredProjectIds : \A o \in StoredProjectIds : q <= o},
     r \in {Str(RunIdLit1), Str("not-a-uuid")},
     s \in {Str("passed"), Str("PASSED")},
     d \in {Num(1234, 0), Num(-1, 0)},
     t \in {Str(TimestampLit1), Str("not-a-date")}}

NextOrder ==
  Provision(StoredOrgIds, {Str("API")}, {FALSE}) \/ Ingest(OrderInputs)

SpecOrder == Init /\ [][NextOrder]_vars

\* clean-db.js run against the database of the live server: one project
\* name, and the two payloads that share a run id.
MaintInputs ==
  {<<p, Str(RunIdLit1), d>> : p \in StoredProjectIds, d \in {DataPassed, DataFailed}}

NextMaint ==
  \/ Provision(StoredOrgIds, {Str("API")}, {FALSE})
  \/ Ingest(MaintInputs)
  \/ CleanStep

SpecMaint == Init /\ [][NextMaint]_vars

\* The same with a payload that fails validation and a storage engine that
\* answers every statement it is sent: the callback of db.run and of db.get is called, with or without an
\* error, and the synchronous part of a call runs to its first await.
LiveInputs ==
  {<<p, r, DataPassed>> : p \in StoredProjectIds,
                          r \in {Str(RunIdLit1), Str("not-a-uuid")}}

NextLive ==
  \/ Provision(StoredOrgIds, {Str("API")}, {FALSE})
  \/ Ingest(LiveInputs)
  \/ CleanStep

StorageAnswers ==
  \A c \in Calls :
    /\ WF_vars(IngestValidate(c))
    /\ WF_vars(\E fault \in BOOLEAN : IngestInsert(c, fault))
    /\ WF_vars(\E fault \in BOOLEAN : IngestFetch(c, fault))

SpecLive == Init /\ [][NextLive]_vars /\ StorageAnswers

\* Provisioning by two clients at once: names that collide after trimming,
\* an organization id that no organization has.
ProvisionConcurrently(orgNames, orgIds, projectNames) ==
  \E v \in ProvClients :
    \/ \E name \in orgNames : CreateOrganizationCall(v, name)
    \/ OrgInsert(v, FALSE)
    \/ \E o \in orgIds, name \in projectNames : CreateProjectCall(v, o, name)
    \/ OrgFind(v, FALSE)
    \/ ProjInsert(v, FALSE)

ConcurrentOrgNames == {Str("Acme"), Str(" Acme "), Str("Beta")}
ConcurrentProjectNames == {Str("API"), Str("API ")}

NextProvision ==
  ProvisionConcurrently(ConcurrentOrgNames, StoredOrgIds \cup {UuidStr(GhostId)},
                        ConcurrentProjectNames)

SpecProvision == Init /\ [][NextProvision]_vars

\* Provisioning with names of every kind: given, given with surrounding
\* whitespace, missing, not a string, empty, whitespace only.
NameInputs ==
  {Str("Acme"), Str(" Acme "), Undefined, Num(42, 0), Str(""), Str("   ")}

NextNames == ProvisionConcurrently(NameInputs, StoredOrgIds, NameInputs)

SpecNames == Init /\ [][NextNames]_vars

\* The arguments of createToken: the id of a stored project, an id that no
\* project has, no id.
TokenProjectInputs ==
  {UuidStr(p) : p \in StoredProjectIds} \cup {UuidStr(GhostId), Undefined}

\* The arguments of validateToken: a token createToken has returned, strings
\* it never returns, values that are no string.
RawTokenInputs ==
  {Str(i.token) : i \in issued}
  \cup {Str(TokenLastChanged), Str(TokenOneAppended), Str(TokenNeverIssued), Str(""),
        Undefined, Null, Num(5, 0)}

\* The issuer creates tokens; the resolver validates raw tokens.
Tokens(projectIds, rawTokens, faults) ==
  \/ \E p \in projectIds : CreateTokenCall("issuer", p)
  \/ TokProjFind("issuer", FALSE)
  \/ TokInsert("issuer", FALSE)
  \/ \E rawToken \in rawTokens : ValidateTokenCall("resolver", rawToken)
  \/ \E fault \in faults : TokLookup("resolver", fault)

NextTokens ==
  \/ Provision(StoredOrgIds, ProjectNameInputs, {FALSE})
  \/ Tokens(TokenProjectInputs, RawTokenInputs, BOOLEAN)

SpecTokens == Init /\ [][NextTokens]_vars

\* createToken when crypto.randomBytes may return bytes it returned before.
NextTokenDraws ==
  \/ Provision(StoredOrgIds, ProjectNameInputs, {FALSE})
  \/ \E p \in StoredProjectIds : CreateTokenCall("issuer", UuidStr(p))
  \/ \E k \in 1..MaxTokens : TokProjFindDrawing("issuer", FALSE, k)
  \/ TokInsert("issuer", FALSE)

SpecTokenDraws == Init /\ [][NextTokenDraws]_vars

\* createOrganization, createProject, createToken and ingestTestRun in any
\* order and interleaving, each also called with the id of a parent that
\* does not exist.
NextIntegrity ==
  \/ Provision(StoredOrgIds \cup {UuidStr(GhostId)}, {Str("API")}, {FALSE})
  \/ \E p \in StoredProjectIds \cup {GhostId} : CreateTokenCall("issuer", UuidStr(p))
  \/ TokProjFind("issuer", FALSE)
  \/ TokInsert("issuer", FALSE)
  \/ Ingest({<<p, Str(RunIdLit1), DataPassed>> : p \in StoredProjectIds \cup {GhostId}})

SpecIntegrity == Init /\ [][NextIntegrity]_vars

\* Authorization headers: Bearer with an issued token, none, another scheme,
\* the scheme in lower case, Bearer with a token never issued, with an issued
\* token altered, with nothing.
HeaderInputs ==
  {Header("Bearer ", i.token) : i \in issued}
  \cup {Undefined, Header("Basic Y", "WJj"), Header("bearer ", TokenLits[1]),
        Header("Bearer ", TokenNeverIssued), Header("Bearer ", TokenLastChanged),
        Header("Bearer ", "")}

\* The headers of the requests that go on to the route: an issued token,
\* none, the scheme in lower case, a token never issued.
RouteHeaderInputs ==
  {Header("Bearer ", i.token) : i \in issued}
  \cup {Undefined, Header("bearer ", TokenLits[1]), Header("Bearer ", TokenNeverIssued)}

BodyOf(projectId, status) ==
  [project_id |-> projectId, run_id |-> Str(RunIdLit1), status |-> Str(status),
   duration_ms |-> Num(1234, 0), timestamp |-> Str(TimestampLit1)]

\* Request bodies: a valid run with a project_id field naming any stored
\* project, and a run without that field whose status the route rejects.
BodyInputs ==
  {BodyOf(UuidStr(x), "passed") : x \in StoredProjectIds}
  \cup {BodyOf(Undefined, "PASSED")}

\* The issuer creates tokens for stored projects.
Issue ==
  \/ \E p \in StoredProjectIds : CreateTokenCall("issuer", UuidStr(p))
  \/ TokProjFind("issuer", FALSE)
  \/ TokInsert("issuer", FALSE)

\* The authenticate middleware of POST /ingest
Authenticate(headers, bodies, faults) ==
  \E r \in Requests :
    \/ \E h \in headers, b \in bodies : AuthReceive(r, h, b)
    \/ \E fault \in faults : AuthLookup(r, fault)

\* The handler of POST /ingest and the ingestTestRun call it makes
Route ==
  \/ \E r \in Requests :
       \/ \E c \in Calls : RouteHandle(r, c)
       \/ RouteRespond(r)
  \/ \E c \in Calls :
       \/ IngestValidate(c)
       \/ IngestInsert(c, FALSE)
       \/ IngestFetch(c, FALSE)

\* The middleware alone, with every header and a lookup that may fail.
NextAuth ==
  \/ Provision(StoredOrgIds, ProjectNameInputs, {FALSE})
  \/ Issue
  \/ Authenticate(HeaderInputs, {BodyOf(Undefined, "passed")}, BOOLEAN)

SpecAuth == Init /\ [][NextAuth]_vars

\* POST /ingest from the header to the response.
NextHttp ==
  \/ Provision(StoredOrgIds, ProjectNameInputs, {FALSE})
  \/ Issue
  \/ Authenticate(RouteHeaderInputs, BodyInputs, {FALSE})
  \/ Route

SpecHttp == Init /\ [][NextHttp]_vars

\* POST /ingest for the projects of one organization, with issued tokens
\* and two valid payloads that share a run id and differ in status.
NextHttpRuns ==
  \/ Provision(StoredOrgIds, ProjectNameInputs, {FALSE})
  \/ Issue
  \/ Authenticate({Header("Bearer ", i.token) : i \in issued},
                  {BodyOf(Undefined, "passed"), BodyOf(Undefined, "failed")}, {FALSE})
  \/ Route

SpecHttpRuns == Init /\ [][NextHttpRuns]_vars

\* The requests errorHandler sees: with the id requestLogger sets and the
\* project authenticate sets, or with neither (express.json() runs first).
RequestInputs ==
  {[requestId |-> Str("6f1c2d3e-0000-4000-8000-000000000001"), method |-> Str("POST"),
    path |-> Str("/"), projectId |-> UuidStr(1)],
   [requestId |-> Str("6f1c2d3e-0000-4000-8000-000000000001"), method |-> Str("POST"),
    path |-> Str("/"), projectId |-> Undefined],
   [requestId |-> Undefined, method |-> Str("POST"), path |-> Str("/"),
    projectId |-> Undefined]}

\* The details of the ValidationError of the routes: validationResult(req).array()
ValidationDetails ==
  Arr(<<Obj([key \in {Key.path, Key.message} |->
              IF key = Key.path THEN Str("status")
              ELSE Str("status must be \"passed\" or \"failed\"")])>>)

\* The errors of the services and the middleware
AppErrorInputs ==
  {Thrown(ValidationError("Validation failed"), ValidationDetails),
   Thrown(ValidationError("run_id must be a valid UUID"), Null),
   Thrown(UnauthorizedError("Invalid token"), Null),
   Thrown(NotFoundError("Project does not exist"), Null),
   Thrown(ConflictError("Organization already exists"), Null)}

\* Errors that are no AppError: of the driver, of the db modules, of
\* ingestTestRun, of express.json().
OtherErrorInputs ==
  {Thrown(IoFailed, Undefined),
   Thrown(DriverError("SQLITE_BUSY", "database is locked"), Undefined),
   Thrown(UniqueFailed, Undefined),
   Thrown(TokenCreateRejection(UniqueFailed), Undefined),
   Thrown([name |-> "Error", code |-> "none",
           message |-> "Constraint violation but record not found"], Undefined),
   JsonParseError("Unexpected token i in JSON at position 2"),
   PayloadTooLargeError}

\* An error of a dependency that carries a property named details
DetailedErrorInputs ==
  {Thrown(IoFailed, Str("unable to open database file /var/lib/app/test-analytics.db"))}

HandleErrors(errors) ==
  \E n \in 1..MaxErrors, err \in errors, req \in RequestInputs : HandleError(n, err, req)

NextErrors == HandleErrors(AppErrorInputs \cup OtherErrorInputs \cup DetailedErrorInputs)

SpecErrors == Init /\ [][NextErrors]_vars

\* An object with the given properties, as <<name, value>> pairs
ObjectOf(pairs) ==
  Obj([key \in {pair[1] : pair \in pairs} |->
         (CHOOSE pair \in pairs : pair[1] = key)[2]])

\* The contexts of the log calls: those of the unit tests, one with every
\* listed field name as a key, keys that contain a listed name, an array of
\* objects, and a context without any sensitive key.
ContextInputs ==
  {ObjectOf({<<Key.userId, Str("123")>>, <<Field.token, Str("ta_live_secret123")>>,
             <<Field.password, Str("mypassword")>>}),
   ObjectOf({<<Key.request, ObjectOf({<<Key.headers,
                ObjectOf({<<Field.authorization, Str("Bearer token123")>>})>>})>>}),
   ObjectOf({<<Field.secret, Str("s3cr3t")>>, <<Field.api_key, Str("key-1")>>,
             <<Field.token_hash, Str("6287c353")>>}),
   ObjectOf({<<Field.tokenHash, Str("6287c353")>>, <<Key.path, Str("/ingest")>>}),
   ObjectOf({<<Field.apiKey, Str("key-1")>>, <<Key.method, Str("POST")>>}),
   ObjectOf({<<Key.Authorization, Str("Bearer token123")>>,
             <<Key.tokens_used, Num(5, 0)>>}),
   ObjectOf({<<Key.items, Arr(<<ObjectOf({<<Field.password, Str("mypassword")>>}),
                              Str("plain")>>)>>}),
   ObjectOf({<<Key.request_id, Str("6f1c2d3e")>>, <<Key.status, Num(200, 0)>>,
             <<Key.project_id, Null>>})}

NextLogger ==
  \E level \in {"error", "warn", "info", "debug"},
     message \in {"Request completed", "Token created"},
     context \in ContextInputs :
    Log(level, message, context)

SpecLogger == Init /\ [][NextLogger]_vars

\* The callers of db/database.js in any order, with callbacks of the driver
\* that may report an error.
NextDatabase ==
  \/ InitDatabaseCall /\ UNCHANGED srv
  \/ \E i \in 1..MaxDbCalls, fault \in BOOLEAN :
       InitDatabaseStep(i, fault) /\ UNCHANGED srv
  \/ GetDatabaseCall /\ UNCHANGED srv
  \/ CloseDatabaseCall /\ UNCHANGED srv
  \/ \E i \in 1..MaxDbCalls, fault \in BOOLEAN :
       CloseDatabaseStep(i, fault) /\ UNCHANGED srv

SpecDatabase == Init /\ [][NextDatabase]_vars

\* Requests through requestLogger: with and without a project id set by
\* authenticate, answered with res.json, res.send or neither.
NextRequestLogger ==
  \E r \in Requests :
    \/ \E req \in RequestInputs : RequestLoggerCall(r, req)
    \/ \E statusCode \in {200, 401} : ResJson(r, statusCode)
    \/ \E statusCode \in {200, 401} : ResSend(r, statusCode)
    \/ \E statusCode \in {200, 401} : ResFinish(r, statusCode)

SpecRequestLogger == Init /\ [][NextRequestLogger]_vars

\* The process of server.js: signals and errors at any time, a driver whose
\* callbacks may report an error, a port that may be taken.
NextServer ==
  \/ StartServer
  \/ StartServerResume
  \/ \E fault \in BOOLEAN : ServerListening(fault)
  \/ \E signal \in Signals : Shutdown(signal)
  \/ ServerStopped
  \/ \E k \in 1..MaxTriggers : CloseCallback(k)
  \/ \E k \in 1..MaxTriggers : ShutdownResume(k)
  \/ ForcedShutdown
  \/ \E i \in 1..MaxDbCalls, fault \in BOOLEAN :
       ~srv.exited /\ InitDatabaseStep(i, fault) /\ UNCHANGED srv
  \/ \E i \in 1..MaxDbCalls, fault \in BOOLEAN :
       ~srv.exited /\ CloseDatabaseStep(i, fault) /\ UNCHANGED srv

SpecServer == Init /\ [][NextServer]_vars

----------------------------------------------------------------------------
(* Properties of the ingestion write path                                   *)

HasReturned(c) == calls[c].pc \in {"Created", "Returned"}

\* The stored rows of a (project_id, run_id) pair
RowsOf(projectId, runId) ==
  {r \in test_runs : r.project_id = projectId /\ r.run_id = runId}

\* The calls made so far for the pair of call c
CallsOnPairOf(c) ==
  {d \in Calls : /\ calls[d].pc # "idle"
                 /\ calls[d].projectId = calls[c].projectId
                 /\ calls[d].runId = calls[c].runId}

\* C1: once all of K >= 2 calls for one (project_id, run_id) have returned,
\* whatever the interleaving of their inserts and fetches, exactly one row is
\* stored for the pair, exactly one call returned created=true, and every
\* other call returned created=false with the record of that row.
C1_ConcurrentRaceSafety ==
  \A c \in Calls :
    LET S == CallsOnPairOf(c)
        rows == RowsOf(calls[c].projectId, calls[c].runId)
    IN  (Cardinality(S) >= 2 /\ \A d \in S : HasReturned(d))
        => /\ Cardinality(rows) = 1
           /\ Cardinality({d \in S : calls[d].created}) = 1
           /\ \A d \in S : calls[d].testRun \in rows
           /\ \A d \in S : ~calls[d].created => calls[d].pc = "Returned"

\* Two overlapping calls for one pair have both returned, and the call that
\* was issued second won the race.
C1_Witness ==
  /\ calls[1].pc = "Returned"
  /\ calls[2].pc = "Created"
  /\ 1 \notin calls[2].prior
  /\ calls[1].projectId = calls[2].projectId
  /\ calls[1].runId = calls[2].runId

\* Call d was issued after call c had ended.
IssuedAfter(d, c) == c \in calls[d].prior

\* C2: N >= 2 calls for one (project_id, run_id) made one after the other
\* leave exactly one row for the pair; the first returns created=true and every
\* later one created=false with the record the first returned (same id,
\* run_id, project_id, status, duration_ms and timestamp).
C2_SequentialIdempotence ==
  \A c \in Calls :
    LET S == CallsOnPairOf(c)
    IN  ( /\ c \in S
          /\ Cardinality(S) >= 2
          /\ \A d \in S : HasReturned(d)
          /\ \A d \in S \ {c} : IssuedAfter(d, c) )
        => /\ Cardinality(RowsOf(calls[c].projectId, calls[c].runId)) = 1
           /\ calls[c].created
           /\ \A d \in S \ {c} :
                /\ ~calls[d].created
                /\ calls[d].testRun.id = calls[c].testRun.id
                /\ calls[d].testRun.run_id = calls[c].testRun.run_id
                /\ calls[d].testRun.project_id = calls[c].testRun.project_id
                /\ calls[d].testRun.status = calls[c].testRun.status
                /\ calls[d].testRun.duration_ms = calls[c].testRun.duration_ms
                /\ calls[d].testRun.timestamp = calls[c].testRun.timestamp

\* The second of two sequential calls for one pair has returned.
C2_Witness ==
  /\ calls[1].pc = "Created"
  /\ calls[2].pc = "Returned"
  /\ IssuedAfter(2, 1)
  /\ calls[1].projectId = calls[2].projectId
  /\ calls[1].runId = calls[2].runId

\* C3: in every reachable state test_runs holds at most one row for each
\* (project_id, run_id) pair.
C3_UniquePerProjectRun ==
  \A r1, r2 \in test_runs :
    (r1.project_id = r2.project_id /\ r1.run_id = r2.run_id) => r1 = r2

\* A second insert for a stored pair has been attempted, with other values.
C3_Witness ==
  \E c, d \in Calls :
    /\ calls[c].pc = "Created"
    /\ calls[d].insertErr = UniqueFailed
    /\ calls[d].projectId = calls[c].projectId
    /\ calls[d].runId = calls[c].runId
    /\ calls[d].data # calls[c].data
    /\ test_runs # {}

\* C4: a call for a stored pair, whose status, duration_ms and timestamp
\* differ from the stored ones, returns created=false with the stored row,
\* which holds the values of the call that created it, and no step changes or
\* removes a stored row.
C4_ReturnedIsStoredRow ==
  \A c \in Calls :
    calls[c].pc = "Returned"
    => /\ ~calls[c].created
       /\ RowsOf(calls[c].projectId, calls[c].runId) = {calls[c].testRun}
       /\ \E w \in Calls \ {c} :
            /\ calls[w].pc = "Created"
            /\ calls[w].testRun = calls[c].testRun
            /\ calls[c].testRun.status = calls[w].data.status
            /\ calls[c].testRun.duration_ms = calls[w].data.duration_ms
            /\ calls[c].testRun.timestamp = calls[w].data.timestamp

C4_StoredRowsKept == \A r \in test_runs : r \in test_runs'

C4_FirstWriterWins == []C4_ReturnedIsStoredRow /\ [][C4_StoredRowsKept]_vars

\* A call has returned a record whose three values all differ from its own.
C4_Witness ==
  \E c \in Calls :
    /\ calls[c].pc = "Returned"
    /\ calls[c].testRun.status # calls[c].data.status
    /\ calls[c].testRun.duration_ms # calls[c].data.duration_ms
    /\ calls[c].testRun.timestamp # calls[c].data.timestamp

C6_NeverAnError ==
  \A c \in Calls :
    calls[c].insertErr = UniqueFailed => calls[c].pc \in {"FetchingExisting", "Returned"}

\* C6 as amended: the uniqueness rejection itself never reaches the caller. The
\* call fetches, and a fetch that finds the row gives a successful
\* created=false outcome with that existing record; the call fails only when
\* the fetch fails (its storage error) or finds no row (unexpected state).
C6_ConflictRecovered ==
  \A c \in Calls :
    /\ calls[c].error.code # "UNIQUE_VIOLATION"
    /\ calls[c].insertErr = UniqueFailed
       => /\ calls[c].fetches = 1
          /\ calls[c].pc \in {"FetchingExisting", "Returned", "StorageFailed",
                              "FatalInconsistency"}
          /\ calls[c].pc = "FetchingExisting" <=> calls[c].fetched = "none"
          /\ calls[c].pc = "StorageFailed" <=> calls[c].fetched = "error"
          /\ calls[c].pc = "FatalInconsistency" <=> calls[c].fetched = "norow"
          /\ calls[c].pc = "Returned" <=> calls[c].fetched = "row"
          /\ calls[c].pc = "StorageFailed" => calls[c].error = IoFailed
          /\ calls[c].pc = "Returned"
             => /\ ~calls[c].created
                /\ calls[c].error = NoError
                /\ calls[c].testRun.project_id = calls[c].projectId
                /\ calls[c].testRun.run_id = calls[c].runId
                /\ calls[c].testRun.id # calls[c].id

\* A rejected insert has been recovered into a created=false outcome.
C6_Witness ==
  \E c \in Calls :
    /\ calls[c].insertErr = UniqueFailed
    /\ calls[c].pc = "Returned"
    /\ ~calls[c].created

\* The validity of each field, as C7 words it
RunIdIsInvalid(c)     == ~isValidUUID(calls[c].runId)
StatusIsInvalid(c)    == calls[c].data.status \notin {Str("passed"), Str("failed")}
DurationIsInvalid(c)  ==
  LET d == calls[c].data.duration_ms
  IN  IF d.t # "number" THEN TRUE ELSE d.n < 0 \/ d.f # 0
TimestampIsInvalid(c) == ~isValidISO8601(calls[c].data.timestamp)

PayloadIsInvalid(c) ==
  RunIdIsInvalid(c) \/ StatusIsInvalid(c) \/ DurationIsInvalid(c) \/ TimestampIsInvalid(c)

\* C7: a call with an invalid run_id, status, duration_ms or timestamp ends
\* with a ValidationError, issues no insert and no fetch, and stores no row.
C7_InvalidNeverReachesStorage ==
  \A c \in Calls :
    (calls[c].pc # "idle" /\ PayloadIsInvalid(c))
    => /\ calls[c].pc \in {"Validating", "ValidationFailed"}
       /\ calls[c].inserts = 0
       /\ calls[c].fetches = 0
       /\ \A r \in test_runs : r.id # CallUuid(c)
       /\ calls[c].pc = "ValidationFailed" => calls[c].error.name = "ValidationError"

C7_RowsUnchangedByRejection ==
  \A c \in Calls :
    (calls[c].pc # "ValidationFailed" /\ calls'[c].pc = "ValidationFailed")
    => test_runs' = test_runs

C7_ValidationBeforeStorage ==
  []C7_InvalidNeverReachesStorage /\ [][C7_RowsUnchangedByRejection]_vars

\* A call whose only invalid field is a non-canonical timestamp has been
\* rejected while a row is stored.
C7_Witness ==
  \E c \in Calls :
    /\ calls[c].pc = "ValidationFailed"
    /\ ~RunIdIsInvalid(c) /\ ~StatusIsInvalid(c) /\ ~DurationIsInvalid(c)
    /\ calls[c].data.timestamp = Str("2026-01-12T10:10:00Z")
    /\ test_runs # {}

\* The transitions of the state model of a call, as the spec gives it
StateModelTransitions ==
  {<<"idle", "Validating">>,
   <<"Validating", "Inserting">>, <<"Validating", "ValidationFailed">>,
   <<"Inserting", "Created">>, <<"Inserting", "FetchingExisting">>,
   <<"Inserting", "StorageFailed">>,
   <<"FetchingExisting", "Returned">>, <<"FetchingExisting", "FatalInconsistency">>}

FollowsTransitions(T) ==
  \A c \in Calls :
    \/ calls'[c].pc = calls[c].pc
    \/ <<calls[c].pc, calls'[c].pc>> \in T

\* C8 as claimed: a call takes only the transitions of the state model; one
\* that entered FetchingExisting ends only in Returned or FatalInconsistency.
C8_StateModelAsClaimed == [][FollowsTransitions(StateModelTransitions)]_vars

\* C8 as amended: the state model with one more transition, FetchingExisting
\* -> StorageFailed, taken when the fetch itself fails; a call ends in exactly
\* one of the five terminal states and leaves none of them.
C8_StateModelAmended ==
  [][FollowsTransitions(StateModelTransitions
                        \cup {<<"FetchingExisting", "StorageFailed">>})]_vars

\* A call has gone from FetchingExisting into StorageFailed.
C8_Witness ==
  \E c \in Calls :
    /\ calls[c].fetches = 1
    /\ calls[c].fetched = "error"
    /\ calls[c].pc = "StorageFailed"
    /\ calls[c].testRun = Null

\* C9: an insert that fails for another reason than the uniqueness constraint
\* is followed by no fetch and no created=false outcome; the call fails with
\* an error that is not the idempotency conflict.
C9_OtherInsertFailurePropagates ==
  \A c \in Calls :
    calls[c].insertErr \notin {NoError, UniqueFailed}
    => /\ calls[c].pc = "StorageFailed"
       /\ calls[c].fetches = 0
       /\ calls[c].fetched = "none"
       /\ ~calls[c].created
       /\ calls[c].testRun = Null
       /\ calls[c].error.code # "UNIQUE_VIOLATION"
       /\ calls[c].insertErr = ForeignFailed
          => calls[c].error.code = "FOREIGN_KEY_VIOLATION"
       /\ calls[c].insertErr = IoFailed => calls[c].error = IoFailed

\* An insert for an id that is no project's has failed on the foreign key.
C9_Witness ==
  \E c \in Calls :
    /\ calls[c].insertErr = ForeignFailed
    /\ calls[c].pc = "StorageFailed"
    /\ calls[c].projectId \notin StoredProjectIds

\* C10: when the insert is rejected by the uniqueness constraint and the
\* fetch finds no row, the call fails with the unexpected-state error and
\* returns no record, neither created=true nor created=false.
C10_NoFabricatedRecord ==
  \A c \in Calls :
    calls[c].fetched = "norow"
    => /\ calls[c].pc = "FatalInconsistency"
       /\ calls[c].error.message = "Constraint violation but record not found"
       /\ calls[c].error.name = "Error"
       /\ calls[c].testRun = Null
       /\ ~calls[c].created

\* The row was deleted between the rejected insert and the fetch.
C10_Witness ==
  \E c \in Calls :
    /\ calls[c].insertErr = UniqueFailed
    /\ calls[c].fetched = "norow"
    /\ cleanPc > 0

----------------------------------------------------------------------------
(* Properties of authentication, provisioning and tokens                    *)

IssuedTokens == {i.token : i \in issued}

\* The project createToken returned the token for
OwnerOf(token) == (CHOOSE i \in issued : i.token = token).project_id

\* The request presents 'Bearer <token>' with a token createToken returned.
PresentsIssuedToken(r) ==
  /\ reqs[r].authorization.t = "header"
  /\ reqs[r].authorization.head = "Bearer "
  /\ reqs[r].authorization.tail \in IssuedTokens

\* C11: every row written through POST /ingest, and every record a response
\* carries, has the project_id of the project that owns the presented token,
\* whatever project_id the body names; a request whose token is missing,
\* malformed or unknown never reaches ingestTestRun.
C11_TenantIsolation ==
  /\ \A r \in Requests :
       /\ reqs[r].call # 0
          => /\ PresentsIssuedToken(r)
             /\ calls[reqs[r].call].projectId = OwnerOf(reqs[r].authorization.tail)
             /\ calls[reqs[r].call].testRun # Null
                => calls[reqs[r].call].testRun.project_id
                   = OwnerOf(reqs[r].authorization.tail)
             /\ reqs[r].json # Null
                => reqs[r].json.project_id = OwnerOf(reqs[r].authorization.tail)
       /\ (reqs[r].pc # "idle" /\ ~PresentsIssuedToken(r))
          => /\ reqs[r].call = 0
             /\ reqs[r].projectId = Undefined
             /\ reqs[r].json = Null
             /\ reqs[r].pc \in {"AuthLooking", "Responded"}
             /\ reqs[r].pc = "Responded" => reqs[r].status = 401
  /\ \A row \in test_runs :
       \E r \in Requests :
         /\ reqs[r].call # 0
         /\ row.id = CallUuid(reqs[r].call)
         /\ row.project_id = OwnerOf(reqs[r].authorization.tail)
  /\ \A c \in Calls :
       calls[c].pc # "idle" => \E r \in Requests : reqs[r].call = c

\* Two requests with the tokens of two projects, each naming the other's
\* project in its body, have each created a row of their own project.
C11_Witness ==
  \E r1, r2 \in Requests :
    /\ reqs[r1].status = 201 /\ reqs[r2].status = 201
    /\ reqs[r1].json.project_id # reqs[r2].json.project_id
    /\ reqs[r1].body.project_id = UuidStr(reqs[r2].json.project_id)
    /\ reqs[r2].body.project_id = UuidStr(reqs[r1].json.project_id)
    /\ \E q \in Requests : reqs[q].json.project_id = OwnerOf(reqs[q].authorization.tail)

\* createProject was called with a valid name and the id of no organization.
OrgIsMissing(v) ==
  /\ prov[v].op = "createProject"
  /\ ~NameIsInvalid(prov[v].name)
  /\ prov[v].organizationId.t = "uuid"
  /\ prov[v].organizationId.id \notin {o.id : o \in organizations}

\* C12: createProject with a valid name and an organization id that matches no
\* organization ends with NotFound; it draws no id and issues no insert, and
\* no projects row is created.
C12_MissingOrgIsNotFound ==
  \A v \in ProvClients :
    OrgIsMissing(v)
    => /\ prov[v].pc \in {"OrgFinding", "failed"}
       /\ prov[v].id = GhostId
       /\ prov[v].result = Null
       /\ prov[v].pc = "failed"
          => /\ prov[v].error.name = "NotFoundError"
             /\ ErrorStatus(prov[v].error) = 404
       /\ \A p \in projects : p.organization_id # prov[v].organizationId.id

C12_NoRowOnNotFound ==
  \A v \in ProvClients :
    (OrgIsMissing(v) /\ prov[v].pc = "OrgFinding" /\ prov'[v].pc # "OrgFinding")
    => projects' = projects

C12_ExistenceCheckedFirst ==
  []C12_MissingOrgIsNotFound /\ [][C12_NoRowOnNotFound]_vars

\* A createProject for the id of no organization has ended with NotFound
\* while an organization and a project of it are stored.
C12_Witness ==
  \E v \in ProvClients :
    /\ OrgIsMissing(v)
    /\ prov[v].pc = "failed"
    /\ prov[v].error.name = "NotFoundError"
    /\ organizations # {}
    /\ projects # {}

\* createToken was called with the id of no project.
ProjectIsMissing(v) ==
  /\ tok[v].op = "createToken"
  /\ tok[v].projectId.t = "uuid"
  /\ tok[v].projectId.id \notin StoredProjectIds

\* C13: createToken with a project id that matches no project ends with
\* NotFound; it draws no token, issues no insert, creates no api_tokens row
\* and returns no raw token.
C13_MissingProjectIsNotFound ==
  \A v \in TokClients :
    ProjectIsMissing(v)
    => /\ tok[v].pc \in {"ProjFinding", "failed"}
       /\ tok[v].rawToken = Undefined
       /\ tok[v].result = Null
       /\ tok[v].inserts = 0
       /\ tok[v].pc = "failed"
          => /\ tok[v].error.name = "NotFoundError"
             /\ ErrorStatus(tok[v].error) = 404
       /\ \A row \in api_tokens : row.project_id # tok[v].projectId.id
       /\ \A i \in issued : i.project_id # tok[v].projectId.id

C13_NoTokenRowOnNotFound ==
  \A v \in TokClients :
    (ProjectIsMissing(v) /\ tok[v].pc = "ProjFinding" /\ tok'[v].pc # "ProjFinding")
    => api_tokens' = api_tokens /\ issued' = issued

C13_TokenNeedsProject ==
  []C13_MissingProjectIsNotFound /\ [][C13_NoTokenRowOnNotFound]_vars

\* A createToken for the id of no project has ended with NotFound after a
\* token was issued for a stored project.
C13_Witness ==
  \E v \in TokClients :
    /\ ProjectIsMissing(v)
    /\ tok[v].pc = "failed"
    /\ tok[v].error.name = "NotFoundError"
    /\ api_tokens # {}

\* C14 as claimed: a createOrganization whose name an organization already
\* has, two concurrent calls with one name included, signals a Conflict to
\* its caller, and one organizations row has that name.
C14_DuplicateNameIsConflict ==
  /\ \A v \in ProvClients :
       (prov[v].op = "createOrganization" /\ prov[v].pc = "failed"
        /\ ~NameIsInvalid(prov[v].name))
       => prov[v].error.name = "ConflictError"
  /\ \A o1, o2 \in organizations : o1.name = o2.name => o1 = o2

\* createOrganization has thrown the driver's own error for a name that is
\* stored once; only the handler of POST /orgs turns it into a 409.
C14_Witness ==
  \E v \in ProvClients :
    /\ prov[v].op = "createOrganization"
    /\ prov[v].pc = "failed"
    /\ prov[v].error = UniqueFailed
    /\ Cardinality({o \in organizations : o.name = prov[v].name}) = 1
    /\ ErrorStatus(prov[v].error) = 500
    /\ ErrorStatus(OrgsRouteRethrow(prov[v].error)) = 409

\* C15 as claimed: a createProject that reached its insert fails exactly when
\* the organization has a project of that name, then with a Conflict (409)
\* and without a row; otherwise its row is stored.
C15_DuplicateProjectIsConflict ==
  \A v \in ProvClients :
    (prov[v].op = "createProject" /\ prov[v].id # GhostId)
    => /\ prov[v].pc = "failed"
          => /\ prov[v].error.name = "ConflictError"
             /\ ErrorStatus(prov[v].error) = 409
             /\ \A p \in projects : p.id # prov[v].id
       /\ prov[v].pc = "done" => prov[v].result \in projects

\* createProject has thrown the driver's own error, a 500 at the boundary,
\* for a name its organization has, while another organization's project has
\* the same name.
C15_Witness ==
  \E v \in ProvClients :
    /\ prov[v].op = "createProject"
    /\ prov[v].pc = "failed"
    /\ prov[v].error = UniqueFailed
    /\ ErrorStatus(prov[v].error) = 500
    /\ \E p, q \in projects :
         /\ p.name = prov[v].name /\ p.organization_id = prov[v].organizationId.id
         /\ q.name = p.name /\ q.organization_id # p.organization_id

\* C16: no api_tokens row holds a raw token that createToken returned or
\* drew; every row holds the SHA-256 digest of the token issued with it.
C16_OnlyHashPersisted ==
  \A row \in api_tokens :
    /\ row.token_hash \notin IssuedTokens
    /\ \A k \in 1..Len(TokenLits) : row.token_hash # TokenLits[k]
    /\ \E i \in issued :
         /\ row.token_hash = hashToken(i.token)
         /\ row.project_id = i.project_id

\* Two tokens have been returned and two rows stored.
C16_Witness ==
  /\ Cardinality(issued) = 2
  /\ Cardinality(api_tokens) = 2
  /\ \E v \in TokClients : tok[v].pc = "done" /\ tok[v].result # Null
                           /\ tok[v].op = "createToken"

\* C17: a validateToken call that completes returns the owning project for a
\* token createToken returned, whatever other tokens were issued since, and
\* null for a string that differs from every issued token.
C17_TokenRoundTrip ==
  \A v \in TokClients :
    (tok[v].op = "validateToken" /\ tok[v].pc = "done" /\ tok[v].rawToken.t = "string")
    => IF tok[v].rawToken.s \in IssuedTokens
       THEN tok[v].result = UuidStr(OwnerOf(tok[v].rawToken.s))
       ELSE tok[v].result = Null

\* The first token resolves to its project after a token of another project
\* was issued.
C17_Witness ==
  \E v \in TokClients :
    /\ tok[v].op = "validateToken" /\ tok[v].pc = "done"
    /\ tok[v].rawToken = Str(TokenLits[1])
    /\ tok[v].result = UuidStr(OwnerOf(TokenLits[1]))
    /\ TokenLits[2] \in IssuedTokens
    /\ OwnerOf(TokenLits[2]) # OwnerOf(TokenLits[1])

\* The raw token is missing, empty or no string.
RawTokenIsMalformed(v) ==
  ~Truthy(tok[v].rawToken) \/ TypeOf(tok[v].rawToken) # "string"

\* C18: validateToken returns null, without a lookup and without throwing,
\* for a missing, empty or non-string raw token; for an unknown token it
\* returns null when its lookup completes, and throws nothing of its own.
C18_AbsenceIsNull ==
  \A v \in TokClients :
    tok[v].op = "validateToken"
    => /\ RawTokenIsMalformed(v)
          => /\ tok[v].pc = "done"
             /\ tok[v].result = Null
             /\ tok[v].error = NoError
             /\ tok[v].lookups = 0
       /\ (~RawTokenIsMalformed(v) /\ tok[v].rawToken.s \notin IssuedTokens)
          => /\ tok[v].pc \in {"Looking", "done", "failed"}
             /\ tok[v].pc = "done" => tok[v].result = Null /\ tok[v].error = NoError
             /\ tok[v].pc = "failed" => tok[v].error = IoFailed

\* validateToken has returned null for a non-string value while tokens are
\* stored.
C18_Witness ==
  \E v \in TokClients :
    /\ tok[v].op = "validateToken"
    /\ tok[v].rawToken = Num(5, 0)
    /\ tok[v].pc = "done"
    /\ tok[v].result = Null
    /\ api_tokens # {}

\* The header is 'Bearer <token>' and the hash of <token> is stored.
HashIsStored(r) ==
  /\ reqs[r].authorization.t = "header"
  /\ reqs[r].authorization.head = "Bearer "
  /\ \E row \in api_tokens : row.token_hash = hashToken(reqs[r].authorization.tail)

AuthHasEnded(r) == reqs[r].pc \in {"Authenticated", "Responded"}

\* C19: authenticate calls next once per request. When its lookup completes,
\* it sets req.projectId to the owner of the token and calls next() exactly
\* when the header is 'Bearer <token>' with a stored hash; otherwise (header
\* missing, not starting with 'Bearer ', hash not stored) it calls next with
\* an UnauthorizedError and leaves req.projectId unset.
C19_AuthenticateDecides ==
  \A r \in Requests :
    /\ reqs[r].nexts = IF AuthHasEnded(r) THEN 1 ELSE 0
    /\ reqs[r].pc = "Authenticated"
       => /\ HashIsStored(r)
          /\ reqs[r].nextError = NoError
          /\ reqs[r].projectId = UuidStr(OwnerOf(reqs[r].authorization.tail))
    /\ (AuthHasEnded(r) /\ reqs[r].lookup # "error")
       => IF HashIsStored(r)
          THEN reqs[r].pc = "Authenticated"
          ELSE /\ reqs[r].pc = "Responded"
               /\ reqs[r].nextError.name = "UnauthorizedError"
               /\ reqs[r].status = 401
               /\ reqs[r].projectId = Undefined

\* One request was authenticated for the project of its token and one with
\* the scheme in lower case was refused.
C19_Witness ==
  \E r1, r2 \in Requests :
    /\ reqs[r1].pc = "Authenticated"
    /\ reqs[r1].projectId = UuidStr(OwnerOf(reqs[r1].authorization.tail))
    /\ reqs[r2].authorization = Header("bearer ", TokenLits[1])
    /\ TokenLits[1] \in IssuedTokens
    /\ reqs[r2].status = 401

\* C20: when the token-hash lookup fails with a storage error, authenticate
\* passes that error to next, not an UnauthorizedError; req.projectId stays
\* unset, the request goes no further and the response is not a 401.
C20_LookupFailureIsSystemFailure ==
  \A r \in Requests :
    reqs[r].lookup = "error"
    => /\ reqs[r].pc = "Responded"
       /\ reqs[r].nexts = 1
       /\ reqs[r].nextError = IoFailed
       /\ reqs[r].nextError.name # "UnauthorizedError"
       /\ reqs[r].status = 500
       /\ reqs[r].projectId = Undefined
       /\ reqs[r].call = 0

\* The lookup has failed for a request that presented an issued token, and
\* for one that presented a token never issued.
C20_Witness ==
  \E r1, r2 \in Requests :
    /\ reqs[r1].lookup = "error" /\ HashIsStored(r1)
    /\ reqs[r2].lookup = "error"
    /\ reqs[r2].authorization = Header("Bearer ", TokenNeverIssued)

----------------------------------------------------------------------------
(* Properties of the error responses                                        *)

\* An error that errorHandler takes for neither an AppError nor a JSON
\* parsing error
IsUnexpectedError(err) == ~err.isAppError /\ ~IsJsonParseError(err)

\* C21: no error response depends on internal error text. For an error that
\* is no AppError and no JSON body-parse error the response is status 500
\* with code 'internal_error' and the message 'An internal server error
\* occurred', and two such errors that differ only in message, stack or
\* other attached fields get identical response bodies for one request id.
C21_NoInternalTextInResponse ==
  \A n \in 1..MaxErrors :
    (handled[n].pc = "Responded" /\ IsUnexpectedError(handled[n].err))
    => /\ handled[n].statusCode = 500
       /\ handled[n].json.code = "internal_error"
       /\ handled[n].json.message = "An internal server error occurred"
       /\ \A m \in 1..MaxErrors :
            ( /\ handled[m].pc = "Responded"
              /\ IsUnexpectedError(handled[m].err)
              /\ RequestIdOf(handled[m].req) = RequestIdOf(handled[n].req) )
            => handled[m].json = handled[n].json

\* Two errors of the driver that differ in message, code and stack have been
\* handled for requests with one request id.
C21_Witness ==
  /\ handled[1].pc = "Responded" /\ handled[2].pc = "Responded"
  /\ IsUnexpectedError(handled[1].err) /\ IsUnexpectedError(handled[2].err)
  /\ handled[1].err.message # handled[2].err.message
  /\ handled[1].err.code # handled[2].err.code
  /\ handled[1].err.stack # handled[2].err.stack
  /\ handled[1].req.requestId = handled[2].req.requestId
  /\ Truthy(handled[1].req.requestId)

\* C22: errorHandler maps every error to one status and category
\* (ValidationError 400 'invalid_request', UnauthorizedError 401
\* 'unauthorized', NotFoundError 404 'not_found', ConflictError 409
\* 'conflict', a JSON body-parse error 400 'invalid_json', any other error
\* 500 'internal_error'), and every response carries a request_id, which is
\* 'unknown' when the request has none.
C22_ErrorMapping ==
  \A n \in 1..MaxErrors :
    LET err == handled[n].err
        expected ==
          CASE err.isAppError /\ err.name = "ValidationError"   -> <<400, "invalid_request">>
            [] err.isAppError /\ err.name = "UnauthorizedError" -> <<401, "unauthorized">>
            [] err.isAppError /\ err.name = "NotFoundError"     -> <<404, "not_found">>
            [] err.isAppError /\ err.name = "ConflictError"     -> <<409, "conflict">>
            [] ~err.isAppError /\ IsJsonParseError(err)         -> <<400, "invalid_json">>
            [] OTHER                                            -> <<500, "internal_error">>
    IN  handled[n].pc = "Responded"
        => /\ <<handled[n].statusCode, handled[n].json.code>> = expected
           /\ handled[n].json.request_id =
                IF handled[n].req.requestId = Undefined THEN Str("unknown")
                ELSE handled[n].req.requestId

\* A ConflictError has been answered for a request with an id, and a JSON
\* body-parse error for a request without one.
C22_Witness ==
  /\ handled[1].pc = "Responded" /\ handled[1].err.name = "ConflictError"
  /\ handled[1].statusCode = 409 /\ handled[1].req.requestId # Undefined
  /\ handled[2].pc = "Responded" /\ IsJsonParseError(handled[2].err)
  /\ handled[2].json.request_id = Str("unknown")

----------------------------------------------------------------------------
(* Properties of POST /ingest                                               *)

\* The request has been answered with the record of a test run.
AnsweredWithRecord(r) == reqs[r].pc = "Responded" /\ reqs[r].status \in {200, 201}

\* The row stored for the pair of request r was written by the INSERT of the
\* ingestTestRun call of r.
CreatedItsRow(r) ==
  \E row \in test_runs :
    /\ row.id = CallUuid(reqs[r].call)
    /\ row.project_id = reqs[r].projectId.id
    /\ row.run_id = reqs[r].body.run_id

\* The pair had its row, written by another call, when the INSERT of r ran.
ReturnedExistingRow(r) ==
  \E row \in test_runs :
    /\ row.id # CallUuid(reqs[r].call)
    /\ row.project_id = reqs[r].projectId.id
    /\ row.run_id = reqs[r].body.run_id
    /\ calls[reqs[r].call].inserts = 1
    /\ calls[reqs[r].call].fetches = 1

\* C23: POST /ingest with a valid token and payload responds 201 exactly
\* when that request created the row and 200 exactly when it returned a row
\* that existed already; over any sequence or interleaving of requests for
\* one (project, run_id) at most one 201 is sent and every response body is
\* the same record.
C23_CreatedOnceThenReturned ==
  \A r \in Requests :
    AnsweredWithRecord(r)
    => /\ reqs[r].status = 201 <=> CreatedItsRow(r)
       /\ reqs[r].status = 200 <=> ReturnedExistingRow(r)
       /\ reqs[r].json \in test_runs
       /\ \A q \in Requests \ {r} :
            ( /\ AnsweredWithRecord(q)
              /\ reqs[q].projectId = reqs[r].projectId
              /\ reqs[q].body.run_id = reqs[r].body.run_id )
            => /\ ~(reqs[q].status = 201 /\ reqs[r].status = 201)
               /\ reqs[q].json = reqs[r].json

\* Two requests for one (project, run_id) whose calls overlapped have been
\* answered, the one received second with 201 and the other with 200.
C23_Witness ==
  /\ reqs[1].status = 200 /\ reqs[2].status = 201
  /\ reqs[1].projectId = reqs[2].projectId
  /\ reqs[1].body.run_id = reqs[2].body.run_id
  /\ reqs[1].json = reqs[2].json
  /\ reqs[1].body.status # reqs[2].body.status
  /\ reqs[1].call \notin calls[reqs[2].call].prior

----------------------------------------------------------------------------
(* Properties of the validations of ingestTestRun                           *)

\* The timestamp is a string that parses to a valid instant whose
\* serialization is the string itself.
TimestampRoundTrips(timestamp) ==
  /\ timestamp.t = "string"
  /\ DateParse(timestamp.s).valid
  /\ ToISOString(DateParse(timestamp.s)) = timestamp.s

\* Call c has passed the checks of run_id, status and duration_ms.
TimestampDecides(c) ==
  /\ calls[c].pc \notin {"idle", "Validating"}
  /\ ~RunIdIsInvalid(c) /\ ~StatusIsInvalid(c) /\ ~DurationIsInvalid(c)

StatusDecides(c) ==
  calls[c].pc \notin {"idle", "Validating"} /\ ~RunIdIsInvalid(c)

\* The status is a string that reads 'passed' or 'failed' once trimmed.
StatusIsListedOnceTrimmed(status) ==
  status.t = "string" /\ Trim(status.s) \in {"passed", "failed"}

\* C25: ingestTestRun accepts a status exactly when, after trimming
\* surrounding whitespace, it is exactly 'passed' or 'failed': 'PASSED' is
\* rejected and ' passed ' is accepted, by the engine's own check.
C25_StatusAfterTrimming ==
  \A c \in Calls :
    StatusDecides(c)
    => ( calls[c].error = ValidationError("status must be \"passed\" or \"failed\"")
         <=> ~StatusIsListedOnceTrimmed(calls[c].data.status) )

\* ingestTestRun has rejected ' passed ' and 'PASSED' for their status.
C25_Witness ==
  \E c, d \in Calls :
    /\ StatusDecides(c) /\ calls[c].data.status = Str(" passed ")
    /\ calls[c].error = ValidationError("status must be \"passed\" or \"failed\"")
    /\ StatusDecides(d) /\ calls[d].data.status = Str("PASSED")
    /\ calls[d].error = ValidationError("status must be \"passed\" or \"failed\"")

----------------------------------------------------------------------------
(* Properties of createToken under a collision of hashes                    *)

\* The INSERT of createToken call v was made for a hash that a row of
\* another call holds.
HashAlreadyStored(v) ==
  /\ tok[v].op = "createToken" /\ tok[v].inserts = 1
  /\ tok[v].pc \in {"done", "failed"}
  /\ \E r \in api_tokens :
       r.token_hash = tok[v].tokenHash /\ r.id # <<"token", tok[v].drawn>>

C26_CollisionSignalled ==
  \A v \in TokClients :
    HashAlreadyStored(v)
    => /\ tok[v].pc = "failed"
       /\ tok[v].error.code = "UNIQUE_VIOLATION"
       /\ tok[v].error.message = "Token hash already exists"
       /\ tok[v].result = Null
       /\ Cardinality({r \in api_tokens : r.token_hash = tok[v].tokenHash}) = 1

C26_StoredHashKept ==
  \A r \in api_tokens :
    /\ r \in api_tokens'
    /\ \A q \in api_tokens' : q.token_hash = r.token_hash => q = r

\* C26: a createToken whose insert is rejected because the hash of the
\* generated token is stored already signals a conflict to its caller and
\* returns no raw token, and the stored api_tokens row keeps its project_id:
\* a stored hash is never overwritten or given to another project.
C26_CollisionIsConflict ==
  []C26_CollisionSignalled /\ [][C26_StoredHashKept]_vars

\* createToken has failed for a project on a hash stored for another project.
C26_Witness ==
  \E v \in TokClients :
    /\ HashAlreadyStored(v)
    /\ tok[v].pc = "failed"
    /\ \E r \in api_tokens :
         r.token_hash = tok[v].tokenHash /\ r.project_id # tok[v].projectId.id

----------------------------------------------------------------------------
(* Properties of the logger                                                 *)

\* The name is or contains a listed field name, whatever the case of its
\* letters.
NamesSensitiveField(key) ==
  \E n \in 1..Len(sensitiveFields) :
    Includes(ToLowerCase(key), ToLowerCase(sensitiveFields[n]))

\* The context with the value of every such key, at any depth, replaced
RECURSIVE RedactedAsClaimed(_)
RedactedAsClaimed(x) ==
  IF x.t = "object"
  THEN Obj([key \in DOMAIN x.f |->
              IF NamesSensitiveField(key) THEN Str("[REDACTED]")
              ELSE RedactedAsClaimed(x.f[key])])
  ELSE IF x.t = "array"
  THEN Arr([i \in 1..Len(x.items) |-> RedactedAsClaimed(x.items[i])])
  ELSE x

\* C27: for every log call, every context key at any nesting depth whose
\* name is or contains a listed sensitive field name (token, password,
\* secret, authorization, api_key, apiKey, token_hash, tokenHash) is written
\* with the value '[REDACTED]', and every other key is written unchanged.
C27_SensitiveKeysRedacted ==
  logged.calls > 0
  => \A key \in DOMAIN logged.context.f :
       /\ key \in DOMAIN logged.output.f
       /\ logged.output.f[key] = RedactedAsClaimed(logged.context).f[key]

\* A context with the key apiKey has been logged with its value, after a
\* context whose token and password were redacted.
C27_Witness ==
  /\ logged.calls = 2
  /\ Field.apiKey \in DOMAIN logged.context.f
  /\ logged.output.f[Field.apiKey] = logged.context.f[Field.apiKey]
  /\ logged.output.f[Field.apiKey] # Str("[REDACTED]")

----------------------------------------------------------------------------
(* Properties of the names of organizations and projects                    *)

\* The strings without any character other than whitespace
BlankStrings == {"", "   "}

\* A string with a character that is not whitespace, and with no whitespace
\* before its first or after its last character
IsTrimmedName(name) ==
  /\ name.t = "string"
  /\ name.s \notin BlankStrings
  /\ name.s \notin {" Acme ", "API "}

\* The call of client v has just been made.
NameCallMade(v) ==
  /\ prov[v].pc \in {"idle", "done", "failed"}
  /\ prov'[v] # prov[v]

\* A call with a name that is no string or has no character other than
\* whitespace ends at once with a ValidationError; any other call goes on
\* with the name trimmed. No row is read or written by the check.
C28_NameChecked ==
  \A v \in ProvClients :
    NameCallMade(v)
    => /\ UNCHANGED tables
       /\ IF prov'[v].pc = "failed"
          THEN /\ ~IsTrimmedName(prov'[v].name)
               /\ prov'[v].name \in NameInputs
               /\ IF prov'[v].name.t = "string"
                  THEN Trim(prov'[v].name.s) \in BlankStrings
                  ELSE TRUE
               /\ prov'[v].error.name = "ValidationError"
          ELSE /\ prov'[v].pc \in {"OrgInserting", "OrgFinding"}
               /\ \E name \in NameInputs :
                    /\ name.t = "string"
                    /\ Trim(name.s) \notin BlankStrings
                    /\ prov'[v].name \in {name, Str(Trim(name.s))}

\* Every name stored or returned is trimmed, and no two organizations, and
\* no two projects of one organization, have names that are equal once
\* trimmed.
C28_NamesStoredTrimmed ==
  /\ \A o \in organizations : IsTrimmedName(o.name)
  /\ \A p \in projects : IsTrimmedName(p.name)
  /\ \A v \in ProvClients :
       prov[v].pc = "done"
       => IsTrimmedName(prov[v].result.name) /\ prov[v].result.name = prov[v].name
  /\ \A o1, o2 \in organizations :
       Trim(o1.name.s) = Trim(o2.name.s) => o1 = o2
  /\ \A p1, p2 \in projects :
       (p1.organization_id = p2.organization_id
        /\ Trim(p1.name.s) = Trim(p2.name.s)) => p1 = p2

\* C28: createOrganization and createProject reject a missing, non-string,
\* empty or whitespace-only name with a ValidationError without any storage
\* access, and otherwise persist and return the name trimmed, so that names
\* differing only in surrounding whitespace are one name for uniqueness.
C28_NameTrimmedOrRejected ==
  []C28_NamesStoredTrimmed /\ [][C28_NameChecked]_vars

\* A whitespace-only name has been rejected while ' Acme ' is stored as
\* 'Acme', and a later 'Acme' was refused by the uniqueness rule.
C28_Witness ==
  /\ \E o \in organizations : o.name = Str("Acme")
  /\ prov["admin"].pc = "failed" /\ prov["admin"].name = Str("   ")
  /\ prov["admin"].error.name = "ValidationError"
  /\ prov["peer"].pc = "failed" /\ prov["peer"].op = "createOrganization"
  /\ prov["peer"].name = Str("Acme")
  /\ prov["peer"].error.name # "ValidationError"

----------------------------------------------------------------------------
(* Properties of the database module                                        *)

\* The i-th call found the module initialised: an initDatabase had
\* completed, and no closeDatabase had completed since.
FoundInitialised(i) == dbm.ops[i].initialised

\* C29: the database module has two states. getDatabase throws exactly when
\* the module is uninitialised (before the first completed initDatabase and
\* after every completed closeDatabase); initDatabase on an initialised
\* module returns the same instance and opens no second connection;
\* closeDatabase on an uninitialised module resolves without error.
C29_TwoStateModule ==
  \A i \in 1..Len(dbm.ops) :
    LET o == dbm.ops[i]
    IN  /\ o.op = "getDatabase"
           => (o.pc = "threw" <=> ~FoundInitialised(i))
        /\ (o.op = "initDatabase" /\ FoundInitialised(i))
           => /\ o.pc = "resolved" /\ o.step = 0
              /\ \E j \in 1..(i - 1) :
                   /\ dbm.ops[j].op = "initDatabase" /\ dbm.ops[j].pc = "resolved"
                   /\ dbm.ops[j].result = o.result
        /\ (o.op = "closeDatabase" /\ ~FoundInitialised(i))
           => o.pc = "resolved" /\ o.conn = NoConnection

\* getDatabase has returned the connection while the first initDatabase had
\* not gone past its open callback.
C29_Witness ==
  /\ Len(dbm.ops) = 2
  /\ dbm.ops[1].op = "initDatabase" /\ dbm.ops[1].pc = "pending"
  /\ dbm.ops[1].step = 1
  /\ dbm.ops[2].op = "getDatabase" /\ dbm.ops[2].pc = "returned"
  /\ dbm.ops[2].result = dbm.ops[1].conn

----------------------------------------------------------------------------
(* Termination of ingestTestRun                                             *)

\* The call is under way: it has been made and has not returned or thrown.
InFlight(c) == calls[c].pc \in {"Validating", "Inserting", "FetchingExisting"}

\* Every call under way ends in a terminal state.
C30_CallEnds ==
  \A c \in Calls : InFlight(c) ~> (calls[c].pc \in TerminalPcs)

\* A call has sent at most one INSERT and at most one SELECT.
C30_OneInsertOneFetch ==
  \A c \in Calls : calls[c].inserts <= 1 /\ calls[c].fetches <= 1

\* A call only moves forward: validation, then the insert, then the fetch,
\* then a terminal state that it never leaves.
C30_NoRetry ==
  \A c \in Calls :
    calls'[c] # calls[c]
    => CASE calls[c].pc = "idle"       -> calls'[c].pc = "Validating"
         [] calls[c].pc = "Validating" ->
              calls'[c].pc \in {"Inserting", "ValidationFailed"}
         [] calls[c].pc = "Inserting"  ->
              calls'[c].pc \in {"Created", "FetchingExisting", "StorageFailed"}
         [] calls[c].pc = "FetchingExisting" ->
              calls'[c].pc \in {"Returned", "StorageFailed", "FatalInconsistency"}
         [] OTHER -> FALSE

\* C30: if every storage request is answered, with success or failure, every
\* ingestTestRun call reaches a terminal state (Created, Returned,
\* ValidationFailed, StorageFailed, FatalInconsistency); a call makes at
\* most one insert and at most one fetch and never retries.
C30_EveryCallTerminates ==
  C30_CallEnds /\ []C30_OneInsertOneFetch /\ [][C30_NoRetry]_vars

\* One call has ended after its insert alone, another after its insert and
\* a fetch that failed, and no call is under way.
C30_Witness ==
  /\ \A c \in Calls : calls[c].pc \in TerminalPcs
  /\ \E c \in Calls : calls[c].pc = "Created" /\ calls[c].inserts = 1
                        /\ calls[c].fetches = 0
  /\ \E c \in Calls : calls[c].pc = "StorageFailed" /\ calls[c].inserts = 1
                        /\ calls[c].fetches = 1

----------------------------------------------------------------------------
(* Read-after-write, referential integrity, immutability of rows            *)

\* Call w created the row of the pair of call c, with every column set from
\* its own payload.
WonAgainst(w, c) ==
  /\ w # c
  /\ calls[w].pc = "Created"
  /\ calls[w].projectId = calls[c].projectId /\ calls[w].runId = calls[c].runId
  /\ RowsOf(calls[c].projectId, calls[c].runId)
       = {TestRunRow(calls[w].id, calls[w].projectId, calls[w].runId,
                     calls[w].data.status, calls[w].data.duration_ms,
                     calls[w].data.timestamp, calls[w].createdAt)}

\* C31: when no test_runs row is deleted and reads succeed, the fetch of a
\* call whose insert lost the race finds the winner's complete row under
\* every interleaving, and FatalInconsistency is unreachable.
C31_LoserFindsWinnersRow ==
  \A c \in Calls :
    /\ calls[c].pc # "FatalInconsistency"
    /\ calls[c].fetched # "norow"
    /\ calls[c].insertErr = UniqueFailed
       => \E w \in Calls :
            /\ WonAgainst(w, c)
            /\ FindByRunId(test_runs, calls[c].projectId, calls[c].runId)
                 = calls[w].testRun
            /\ calls[c].fetched = "row" => calls[c].testRun = calls[w].testRun

\* Two calls for one pair were both under way; the one issued first lost
\* the race and its fetch has returned the row of the other.
C31_Witness ==
  /\ calls[1].insertErr = UniqueFailed /\ calls[1].fetched = "row"
  /\ calls[1].pc = "Returned"
  /\ WonAgainst(2, 1)
  /\ 1 \notin calls[2].prior
  /\ calls[1].data # calls[2].data

\* C32: in every state reached through createOrganization, createProject,
\* createToken and ingestTestRun, in any order and interleaving, every
\* projects row references an existing organization, and every api_tokens
\* row and every test_runs row references an existing project.
C32_ReferencesExist ==
  /\ \A p \in projects : \E o \in organizations : o.id = p.organization_id
  /\ \A t \in api_tokens : \E p \in projects : p.id = t.project_id
  /\ \A r \in test_runs : \E p \in projects : p.id = r.project_id

\* All four tables hold a row, and an ingestion for a project id that no
\* project has was refused by the storage engine.
C32_Witness ==
  /\ organizations # {} /\ projects # {} /\ api_tokens # {} /\ test_runs # {}
  /\ \E c \in Calls :
       /\ calls[c].projectId \notin StoredProjectIds
       /\ calls[c].insertErr = ForeignFailed
       /\ calls[c].pc = "StorageFailed"

\* The rows of the four relations, each tagged with its relation
AllRows ==
  {<<"organizations", r>> : r \in organizations}
  \cup {<<"projects", r>> : r \in projects}
  \cup {<<"api_tokens", r>> : r \in api_tokens}
  \cup {<<"test_runs", r>> : r \in test_runs}

\* A step keeps every stored row with its values and adds at most one row.
C33_RowsKeptOneAdded ==
  /\ AllRows \subseteq AllRows'
  /\ Cardinality(AllRows' \ AllRows) <= 1

\* No id is held by two rows of a relation (a row is not rewritten under
\* its id).
C33_OneRowPerId ==
  \A x, y \in AllRows : (x[1] = y[1] /\ x[2].id = y[2].id) => x = y

\* C33: no provisioning or ingestion operation modifies or deletes a row:
\* a row of organizations, projects, api_tokens or test_runs, once stored,
\* is present with the same values in every later state, and an operation
\* adds at most one row, to one relation.
C33_RowsImmutable == []C33_OneRowPerId /\ [][C33_RowsKeptOneAdded]_vars

\* Two tokens of one project, a test run, and a second ingestion of its
\* pair that has returned: seven operations have stored five rows.
C33_Witness ==
  /\ Cardinality(AllRows) = 5
  /\ Cardinality(api_tokens) = 2
  /\ \A t1, t2 \in api_tokens : t1.project_id = t2.project_id
  /\ \E c \in Calls : calls[c].pc = "Returned"

----------------------------------------------------------------------------
(* The order of the validations                                             *)

\* The place, in the order run_id, status, duration_ms, timestamp, of the
\* first invalid field of the payload of call c; 0 when all are valid.
FirstInvalidField(c) ==
  IF RunIdIsInvalid(c) THEN 1
  ELSE IF StatusIsInvalid(c) THEN 2
  ELSE IF DurationIsInvalid(c) THEN 3
  ELSE IF TimestampIsInvalid(c) THEN 4
  ELSE 0

\* The field a message is about
FieldOfMessage(message) ==
  CASE message = "run_id must be a valid UUID" -> 1
    [] message = "status must be \"passed\" or \"failed\"" -> 2
    [] message = "duration_ms must be a non-negative integer" -> 3
    [] message = "timestamp must be a valid ISO 8601 date string" -> 4
    [] OTHER -> 0

\* C34: ingestTestRun checks run_id, status, duration_ms, timestamp in that
\* order and reports the first that fails: each cause has a message of its
\* own, and a payload with several invalid fields gets the message of the
\* earliest of them.
C34_EarliestFieldReported ==
  \A c \in Calls :
    /\ calls[c].pc = "ValidationFailed"
       => /\ FirstInvalidField(c) # 0
          /\ FieldOfMessage(calls[c].error.message) = FirstInvalidField(c)
    /\ \A d \in Calls :
         (calls[c].pc = "ValidationFailed" /\ calls[d].pc = "ValidationFailed"
          /\ FirstInvalidField(c) # FirstInvalidField(d))
         => calls[c].error.message # calls[d].error.message
    /\ calls[c].pc \in {"Inserting", "Created"} => FirstInvalidField(c) = 0

\* A payload whose four fields are all invalid got the message of run_id,
\* and one with a valid run_id and status and two invalid fields the
\* message of duration_ms.
C34_Witness ==
  /\ calls[1].pc = "ValidationFailed" /\ calls[2].pc = "ValidationFailed"
  /\ RunIdIsInvalid(1) /\ StatusIsInvalid(1) /\ DurationIsInvalid(1)
  /\ TimestampIsInvalid(1)
  /\ FieldOfMessage(calls[1].error.message) = 1
  /\ ~RunIdIsInvalid(2) /\ ~StatusIsInvalid(2) /\ DurationIsInvalid(2)
  /\ TimestampIsInvalid(2)
  /\ FieldOfMessage(calls[2].error.message) = 3

----------------------------------------------------------------------------
(* Initialisation of the database module                                    *)

\* C35: an initDatabase promise never resolves before the foreign-key
\* pragma is set and the migrations have completed, for every caller, also
\* for a second call made while a first is opening the connection or
\* running the migrations.
C35_ResolvesOnlyWhenMigrated ==
  \A i \in 1..Len(dbm.ops) :
    (dbm.ops[i].op = "initDatabase" /\ dbm.ops[i].pc = "resolved")
    => IF dbm.ops[i].step = 0
       THEN FoundInitialised(i)
       ELSE dbm.ops[i].step = Len(InitSteps)

\* A second initDatabase has resolved with the connection that the first,
\* still at its open callback, has made.
C35_Witness ==
  /\ Len(dbm.ops) = 2
  /\ dbm.ops[1].op = "initDatabase" /\ dbm.ops[1].pc = "pending"
  /\ InitSteps[dbm.ops[1].step] = "opening"
  /\ dbm.ops[2].op = "initDatabase" /\ dbm.ops[2].pc = "resolved"
  /\ dbm.ops[2].result = dbm.ops[1].conn

\* An initDatabase has failed, none has completed since the last close, and
\* none is under way.
InitHasFailed ==
  /\ ~dbm.initialised
  /\ \E i \in 1..Len(dbm.ops) :
       dbm.ops[i].op = "initDatabase" /\ dbm.ops[i].pc = "rejected"
  /\ \A i \in 1..Len(dbm.ops) : dbm.ops[i].pc # "pending"

\* The connections of the attempts that failed
FailedConnections ==
  {dbm.ops[i].conn : i \in {j \in 1..Len(dbm.ops) :
     dbm.ops[j].op = "initDatabase" /\ dbm.ops[j].pc = "rejected"}}

\* The call made next after a failed initDatabase: getDatabase throws,
\* initDatabase opens a connection of its own.
C36_NextCallFindsUninitialised ==
  (InitHasFailed /\ Len(dbm'.ops) = Len(dbm.ops) + 1)
  => LET o == dbm'.ops[Len(dbm'.ops)]
     IN  /\ o.op = "getDatabase" => o.pc = "threw"
         /\ o.op = "initDatabase"
            => /\ o.pc = "pending"
               /\ o.conn \notin FailedConnections
               /\ dbm'.opened = dbm.opened + 1

\* C36: if initDatabase fails (open error, PRAGMA error, migration error),
\* the module stays uninitialised: a later getDatabase throws 'Database not
\* initialized', and a later initDatabase attempts the initialisation again
\* instead of resolving with the handle of the failed attempt.
C36_FailedInitStaysUninitialised == [][C36_NextCallFindsUninitialised]_vars

\* After an initDatabase that failed in its migrations, getDatabase has
\* returned the connection and a second initDatabase has resolved with it.
C36_Witness ==
  /\ Len(dbm.ops) = 3
  /\ dbm.ops[1].op = "initDatabase" /\ dbm.ops[1].pc = "rejected"
  /\ InitSteps[dbm.ops[1].step] = "migrating"
  /\ dbm.ops[2].op = "getDatabase" /\ dbm.ops[2].pc = "returned"
  /\ dbm.ops[2].result = dbm.ops[1].conn
  /\ dbm.ops[3].op = "initDatabase" /\ dbm.ops[3].pc = "resolved"
  /\ dbm.ops[3].result = dbm.ops[1].conn
  /\ ~dbm.initialised

----------------------------------------------------------------------------
(* requestLogger and shutdown                                               *)

\* res.json, res.send or 'finish' has occurred for request r.
ResponseOccurred(r) ==
  rl[r].jsons + rl[r].sends > 0 \/ rl[r].finished

\* C37: for every request, requestLogger writes the entry 'Request
\* completed' exactly once, whichever of res.json, res.send and 'finish'
\* occur, however many of them, in whatever order.
C37_CompletedLoggedOnce ==
  \A r \in Requests :
    /\ rl[r].completed <= 1
    /\ ResponseOccurred(r) => rl[r].completed = 1
    /\ ~ResponseOccurred(r) => rl[r].completed = 0

\* A request was answered with res.json and res.send after its response
\* had finished, and one entry was written, the last of the console.
C37_Witness ==
  \E r \in Requests :
    /\ rl[r].jsons = 1 /\ rl[r].sends = 1 /\ rl[r].finished
    /\ rl[r].completed = 1
    /\ logged.output.f[Key.message] = Str("Request completed")
    /\ logged.output.f[Key.request_id] = rl[r].req.requestId

\* Every connection that new sqlite3.Database made has been closed.
EveryConnectionClosed == \A n \in 1..dbm.opened : n \in dbm.closed

\* C38: whenever shutdown ends the process with exit code 0, the HTTP
\* server has stopped and the database connection has been closed (or was
\* never opened), and the database is closed only after the close callback
\* of the server has fired, for any number and timing of the triggers,
\* also for one that arrives during startup.
C38_CleanExitIsGraceful ==
  /\ (srv.exited /\ srv.exitCode = 0)
     => /\ srv.server => srv.stopped
        /\ ~srv.accepting
        /\ EveryConnectionClosed
  /\ (\E i \in 1..Len(dbm.ops) : dbm.ops[i].op = "closeDatabase")
     => srv.stopped

\* SIGTERM during the migrations: the process has exited with code 0 and
\* the connection is open.
C38_Witness ==
  /\ srv.exited /\ srv.exitCode = 0
  /\ srv.pc = "starting"
  /\ srv.shutdowns[1].signal = "SIGTERM"
  /\ dbm.ops[srv.initOp].pc = "pending"
  /\ InitSteps[dbm.ops[srv.initOp].step] = "migrating"
  /\ dbm.db # NoConnection /\ dbm.closed = {}

====
